---- MODULE Spec2Model ----
(***************************************************************************)
(* Report synthesis pipeline of the Assignment-Agent frontend:             *)
(*   utils/pptProcessors.jsx   splitPPTFileSections, extractPPTScores      *)
(*   utils/fileDownloaders.jsx buildStudentText, downloadResult            *)
(*   utils/reportBuilders      buildReportHTML, buildStudentHTML,          *)
(*                             buildReportHTMLForSection                   *)
(*                             (the source is kept in frontend/README.md)  *)
(*                                                                         *)
(* A JavaScript string is a sequence of one-character strings, so that     *)
(* trim, split, indexOf and the regular expressions are computed on the    *)
(* characters as the code computes them.                                   *)
(***************************************************************************)
EXTENDS Integers, Sequences, FiniteSets, TLC

VARIABLES
    entry,            \* the function called: "splitPPTFileSections" or "extractPPTScores"
    pc,               \* position of the running call
    text,             \* argument of extractPPTScores / splitPPTFileSections
    parts,            \* splitPPTFileSections: the non-blank blocks
    idx,              \* splitPPTFileSections: 1-based position of the for-of loop
    currentFile,      \* splitPPTFileSections: section being accumulated
    currentFilename,  \* splitPPTFileSections: filename of that section
    fileSections,     \* splitPPTFileSections: sections pushed so far
    opened,           \* history: for each block walked, the branch taken
    sections,         \* value returned by splitPPTFileSections
    secIdx,           \* extractPPTScores: 1-based position of the for-of loop
    pptScores,        \* extractPPTScores: records pushed so far
    emitted,          \* history: for each section walked, the records it pushed
    students,         \* exporters: the scores collection (score records)
    summary,          \* exporters: the summary argument of downloadResult
    result,           \* exporters: the raw result text
    title,            \* exporters: the title argument
    lastTitle,        \* exporters: the lastTitle argument
    pptSection,       \* exporters: the PPT section shown, '' when there is none
    pptFilename,      \* exporters: the filename shown for that section
    studentText,      \* payload of the last downloadStudentTxt
    studentHTML,      \* markup of the last downloadStudentDoc
    resultPayload,    \* payload of the last downloadResult
    reportHTML,       \* markup of the last downloadDoc
    sectionHTML,      \* markup of the last downloadPPTSectionDoc
    sectionText,      \* payload of the last downloadPPTSectionTxt
    printHTML,        \* markup written to the print window by the last downloadPdf
    studentPrint,     \* markup written by the last downloadStudentPdf
    sectionPrint,     \* markup written by the last downloadPPTSectionPdf
    workbook,         \* sheet written by the last downloadExcel
    mode,             \* Dashboard: 'files' | 'github' | 'ppt'
    error,            \* Dashboard: the error message shown, '' when there is none
    isGenerating,     \* Dashboard: a generate request is in flight
    request,          \* Dashboard: the request in flight, its mode and the title it was sent with
    producedBy        \* history: the trimmed title of the request whose response is displayed

pptVars == <<entry, pc, text, parts, idx, currentFile, currentFilename, fileSections,
             opened, sections, secIdx, pptScores, emitted>>
renderIn == <<students, summary, result, title, lastTitle, pptSection, pptFilename>>
printOut == <<printHTML, studentPrint, sectionPrint, workbook>>
renderOut == <<studentText, studentHTML, resultPayload, reportHTML, sectionHTML,
               sectionText, printOut>>
renderVars == <<renderIn, renderOut>>
dashVars == <<mode, error, isGenerating, request, producedBy>>
vars == <<pptVars, renderVars, dashVars>>

-----------------------------------------------------------------------------
(* Bounds of the model *)

MaxBlocks == 3      \* blank-line separated blocks in an input text
MaxRecords == 2     \* score records in a collection given to the exporters
MaxDetails == 2     \* question details in a score record
MaxExports == 2     \* exporters used in one session of the download names

-----------------------------------------------------------------------------
(* Characters and the string primitives the code uses *)

\* the white space of String.prototype.trim, of \s and of Number() among the
\* characters of the model, which are the ASCII characters: tab, line feed,
\* vertical tab, form feed, carriage return and space.  The white space the
\* code knows beyond ASCII (U+00A0, U+1680, U+2000..U+200A, U+2028, U+2029,
\* U+202F, U+205F, U+3000, U+FEFF) is outside the alphabet, as every other
\* character beyond ASCII is.
WhiteSpace == {" ", "\n", "\t", "\r", "\f", ""}

IsSpace(c) == c \in WhiteSpace

IsDigit(c) == c \in {"0", "1", "2", "3", "4", "5", "6", "7", "8", "9"}

DigitVal(c) ==
    CASE c = "0" -> 0 [] c = "1" -> 1 [] c = "2" -> 2 [] c = "3" -> 3
      [] c = "4" -> 4 [] c = "5" -> 5 [] c = "6" -> 6 [] c = "7" -> 7
      [] c = "8" -> 8 [] c = "9" -> 9

\* the least k in lo..hi with P(k), or dflt when there is none
FirstIn(lo, hi, P(_), dflt) ==
    IF \E k \in lo..hi : P(k)
    THEN CHOOSE k \in lo..hi : P(k) /\ \A m \in lo..(k - 1) : ~P(m)
    ELSE dflt

\* the greatest k in lo..hi with P(k), or dflt when there is none
LastIn(lo, hi, P(_), dflt) ==
    IF \E k \in lo..hi : P(k)
    THEN CHOOSE k \in lo..hi : P(k) /\ \A m \in (k + 1)..hi : ~P(m)
    ELSE dflt

\* first index >= i of s that holds no white space (Len(s)+1 when there is none)
SkipSpaces(s, i) == FirstIn(i, Len(s), LAMBDA k : ~IsSpace(s[k]), Len(s) + 1)

\* last index <= i of s that holds no white space (0 when there is none)
SkipSpacesBack(s, i) == LastIn(1, i, LAMBDA k : ~IsSpace(s[k]), 0)

\* first index >= i of s that holds no digit
SkipDigits(s, i) == FirstIn(i, Len(s), LAMBDA k : ~IsDigit(s[k]), Len(s) + 1)

\* first index >= i of s that holds a line feed (Len(s)+1 when there is none):
\* one past the run [^\n]* that starts at i
LineEnd(s, i) == FirstIn(i, Len(s), LAMBDA k : s[k] = "\n", Len(s) + 1)

\* first index >= i of s that holds no line feed
SkipNewlines(s, i) == FirstIn(i, Len(s), LAMBDA k : s[k] # "\n", Len(s) + 1)

\* String.prototype.trim
Trim(s) ==
    LET a == SkipSpaces(s, 1)
        b == SkipSpacesBack(s, Len(s))
    IN  IF a > Len(s) THEN <<>> ELSE SubSeq(s, a, b)

\* pat occurs in s at the 1-based index i
MatchAt(s, pat, i) ==
    /\ i >= 1
    /\ i + Len(pat) - 1 <= Len(s)
    /\ \A j \in 1..Len(pat) : s[i + j - 1] = pat[j]

\* first 1-based index >= i at which pat occurs in s, 0 when there is none
FindFrom(s, pat, i) ==
    FirstIn(i, Len(s) - Len(pat) + 1, LAMBDA k : MatchAt(s, pat, k), 0)

\* String.prototype.indexOf: 0-based, -1 when pat does not occur
IndexOf(s, pat) == FindFrom(s, pat, 1) - 1

\* String.prototype.includes
Includes(s, pat) == FindFrom(s, pat, 1) # 0

\* text.split(/\n\n+/): cut at every maximal run of two or more line feeds
RECURSIVE SplitFrom(_, _)
SplitFrom(s, start) ==
    LET i == FindFrom(s, <<"\n", "\n">>, start)
    IN  IF i = 0 THEN <<SubSeq(s, start, Len(s))>>
        ELSE <<SubSeq(s, start, i - 1)>> \o SplitFrom(s, SkipNewlines(s, i))

SplitBlankRuns(s) == SplitFrom(s, 1)

\* Array.prototype.join
RECURSIVE Join(_, _)
Join(seq, sep) ==
    IF seq = <<>> THEN <<>>
    ELSE IF Len(seq) = 1 THEN seq[1]
    ELSE seq[1] \o sep \o Join(Tail(seq), sep)

\* an optional value: a regular expression's match or null
Some(v) == [some |-> TRUE, v |-> v]
None == [some |-> FALSE, v |-> <<>>]

\* what an exporter left behind: nothing yet (idle), a return without any
\* side effect (noop), or the payload it handed to the download (done); who
\* is the index of the record exported, 0 for the other exporters
Idle == [state |-> "idle", who |-> 0, items |-> <<>>]
NoOp == [state |-> "noop", who |-> 0, items |-> <<>>]
Done(i, items) == [state |-> "done", who |-> i, items |-> items]

-----------------------------------------------------------------------------
(* Literals of pptProcessors.jsx *)

FILE_COLON == <<"F","i","l","e",":">>
TOTAL_SLIDES == <<"T","o","t","a","l"," ","S","l","i","d","e","s",":">>
NL_TOTAL_SLIDES == <<"\n">> \o TOTAL_SLIDES
CONTENT_EVALUATION == <<"C","O","N","T","E","N","T"," ","E","V","A","L","U","A","T","I","O","N">>
VISUAL_DESIGN_EVALUATION == <<"V","I","S","U","A","L"," ","D","E","S","I","G","N"," ","E","V","A","L","U","A","T","I","O","N">>
CONTENT_QUALITY_SCORE == <<"C","o","n","t","e","n","t"," ","Q","u","a","l","i","t","y"," ","S","c","o","r","e",":">>
STRUCTURE_SCORE == <<"S","t","r","u","c","t","u","r","e"," ","S","c","o","r","e",":">>
ALIGNMENT_SCORE == <<"A","l","i","g","n","m","e","n","t"," ","S","c","o","r","e",":">>
SLASH_100 == <<"/","1","0","0">>
FEEDBACK_COLON == <<"F","e","e","d","b","a","c","k",":">>
SCORE_WORD == <<"S","c","o","r","e">>
UNKNOWN == <<"U","n","k","n","o","w","n">>
EVALUATION_COMPLETED == <<"E","v","a","l","u","a","t","i","o","n"," ","c","o","m","p","l","e","t","e","d">>
BLANK_LINE == <<"\n","\n">>
SEMICOLON_SPACE == <<";"," ">>
DASH == <<"-">>

-----------------------------------------------------------------------------
(* splitPPTFileSections *)

\* /^File:<ws>([^\n]+)/m on s, where <ws> is \s+ (minWs = 1) or \s* (minWs = 0):
\* the capture of the first match, or null.  ^ matches at the start and after
\* a line terminator; \s runs greedily over line feeds too and gives back
\* characters only when the capture would otherwise be empty.
\* where the capture [^\n]+ starts: the greatest j in lo..hi that is an index
\* of s and holds no line feed, 0 when there is none
CaptureStart(s, lo, hi) ==
    LastIn(lo, IF hi <= Len(s) THEN hi ELSE Len(s), LAMBDA k : s[k] # "\n", 0)

RECURSIVE FileRegexFrom(_, _, _)
FileRegexFrom(s, minWs, p) ==
    LET q == FindFrom(s, FILE_COLON, p)
    IN  IF q = 0 THEN None
        ELSE LET atLineStart == q = 1 \/ s[q - 1] \in {"\n", "\r"}
                 w == q + Len(FILE_COLON)
                 j == CaptureStart(s, w + minWs, SkipSpaces(s, w))
             IN  IF atLineStart /\ j # 0
                 THEN Some(SubSeq(s, j, LineEnd(s, j) - 1))
                 ELSE FileRegexFrom(s, minWs, q + 1)

fileMatch(trimmed) == FileRegexFrom(trimmed, 1, 1)

extractedFilename(trimmed) ==
    LET m == fileMatch(trimmed)
    IN  IF m.some THEN Some(Trim(m.v)) ELSE None

startsWithFile(trimmed) == fileMatch(trimmed).some

hasTotalSlides(trimmed) == Includes(trimmed, NL_TOTAL_SLIDES)

fileIndex(trimmed) == IndexOf(trimmed, FILE_COLON)

totalSlidesIndex(trimmed) == IndexOf(trimmed, TOTAL_SLIDES)

contentEvalIndex(trimmed) == IndexOf(trimmed, CONTENT_EVALUATION)

designEvalIndex(trimmed) == IndexOf(trimmed, VISUAL_DESIGN_EVALUATION)

\* Infinity is modelled by a value above every index of the block
Infinity(trimmed) == Len(trimmed) + 1

firstEvalIndex(trimmed) ==
    LET c == IF contentEvalIndex(trimmed) = -1 THEN Infinity(trimmed)
             ELSE contentEvalIndex(trimmed)
        d == IF designEvalIndex(trimmed) = -1 THEN Infinity(trimmed)
             ELSE designEvalIndex(trimmed)
    IN  IF c < d THEN c ELSE d

isMainFileHeader(trimmed) ==
    /\ startsWithFile(trimmed)
    /\ hasTotalSlides(trimmed)
    /\ fileIndex(trimmed) < totalSlidesIndex(trimmed)
    /\ \/ firstEvalIndex(trimmed) = Infinity(trimmed)
       \/ totalSlidesIndex(trimmed) < firstEvalIndex(trimmed)

\* currentFilename && extractedFilename && extractedFilename === currentFilename
belongsToCurrentFile(curName, extracted) ==
    /\ curName # <<>>
    /\ extracted.some /\ extracted.v # <<>>
    /\ extracted.v = curName

\* extractedFilename || ''
OrEmpty(extracted) == IF extracted.some THEN extracted.v ELSE <<>>

\* the branch of the if / else-if chain that a block takes
Branch(trimmed, curFile, curName) ==
    LET extracted == extractedFilename(trimmed)
    IN  IF isMainFileHeader(trimmed)
           /\ (curName = <<>> \/ ~extracted.some \/ extracted.v # curName)
        THEN "new"
        ELSE IF belongsToCurrentFile(curName, extracted)
                \/ (~(extracted.some /\ extracted.v # <<>>) /\ curFile # <<>>)
        THEN "same"
        ELSE IF curFile = <<>>
        THEN "first"
        ELSE "continuation"

\* a mutant of NonBlankParts: the blank blocks are not filtered out
PartsWithBlanks(s) == SplitBlankRuns(s)

\* text.split(/\n\n+/).filter(p => p.trim().length > 0)
NonBlankParts(s) == SelectSeq(SplitBlankRuns(s), LAMBDA p : Len(Trim(p)) > 0)

\* if (!text || typeof text !== 'string') return []
SplitEarlyReturn ==
    /\ pc = "split"
    /\ text = <<>>
    /\ sections' = <<>>
    /\ pc' = IF entry = "extractPPTScores" THEN "sections" ELSE "done"
    /\ UNCHANGED <<entry, text, parts, idx, currentFile, currentFilename, fileSections,
                   opened, secIdx, pptScores, emitted>>
    /\ UNCHANGED <<renderVars, dashVars>>

SplitBegin ==
    /\ pc = "split"
    /\ text # <<>>
    /\ parts' = NonBlankParts(text)
    /\ idx' = 1
    /\ fileSections' = <<>>
    /\ currentFile' = <<>>
    /\ currentFilename' = <<>>
    /\ pc' = "loop"
    /\ UNCHANGED <<entry, text, opened, sections, secIdx, pptScores, emitted>>
    /\ UNCHANGED <<renderVars, dashVars>>

\* a mutant of AppendPart: the blocks of a section joined by a single line feed
AppendPartSingleNewline(curFile, trimmed) == curFile \o <<"\n">> \o trimmed

\* currentFile += '\n\n' + trimmed
AppendPart(curFile, trimmed) == curFile \o BLANK_LINE \o trimmed

\* if (currentFile) fileSections.push(currentFile.trim())
PushCurrent(fs, curFile) ==
    IF curFile # <<>> THEN Append(fs, Trim(curFile)) ELSE fs

\* a mutant of SplitResult: no fallback to the whole text
SplitResultNoFallback(fs, txt) == fs

\* return fileSections.length > 0 ? fileSections : [text]
SplitResult(fs, txt) == IF Len(fs) > 0 THEN fs ELSE <<txt>>

\* one iteration of  for (const part of parts)
SplitPart ==
    /\ pc = "loop"
    /\ idx <= Len(parts)
    /\ LET trimmed == Trim(parts[idx])
           br == Branch(trimmed, currentFile, currentFilename)
       IN  /\ opened' = Append(opened, br)
           /\ IF br = "new"
              THEN /\ fileSections' = PushCurrent(fileSections, currentFile)
                   /\ currentFile' = trimmed
                   /\ currentFilename' = OrEmpty(extractedFilename(trimmed))
              ELSE IF br = "first"
              THEN /\ currentFile' = trimmed
                   /\ currentFilename' = OrEmpty(extractedFilename(trimmed))
                   /\ UNCHANGED fileSections
              ELSE /\ currentFile' = AppendPart(currentFile, trimmed)
                   /\ UNCHANGED <<currentFilename, fileSections>>
    /\ idx' = idx + 1
    /\ UNCHANGED <<entry, pc, text, parts, sections, secIdx, pptScores, emitted>>
    /\ UNCHANGED <<renderVars, dashVars>>

\* the flush of the last section and the return
SplitEnd ==
    /\ pc = "loop"
    /\ idx > Len(parts)
    /\ fileSections' = PushCurrent(fileSections, currentFile)
    /\ sections' = SplitResult(PushCurrent(fileSections, currentFile), text)
    /\ pc' = IF entry = "extractPPTScores" THEN "sections" ELSE "done"
    /\ UNCHANGED <<entry, text, parts, idx, currentFile, currentFilename, opened,
                   secIdx, pptScores, emitted>>
    /\ UNCHANGED <<renderVars, dashVars>>

\* the loop of splitPPTFileSections run to its end from block i of ps on, as
\* a function of the accumulators: the sections pushed, the last flush included
RECURSIVE SplitLoop(_, _, _, _, _)
SplitLoop(ps, i, fs, curFile, curName) ==
    IF i > Len(ps) THEN PushCurrent(fs, curFile)
    ELSE LET trimmed == Trim(ps[i])
             br == Branch(trimmed, curFile, curName)
         IN  IF br = "new"
             THEN SplitLoop(ps, i + 1, PushCurrent(fs, curFile), trimmed,
                            OrEmpty(extractedFilename(trimmed)))
             ELSE IF br = "first"
             THEN SplitLoop(ps, i + 1, fs, trimmed, OrEmpty(extractedFilename(trimmed)))
             ELSE SplitLoop(ps, i + 1, fs, AppendPart(curFile, trimmed), curName)

\* splitPPTFileSections(text) as a function of its argument
splitPPTFileSections(txt) ==
    IF txt = <<>> THEN <<>>
    ELSE SplitResult(SplitLoop(NonBlankParts(txt), 1, <<>>, <<>>, <<>>), txt)

-----------------------------------------------------------------------------
(* Numbers: a JavaScript number is written as the fraction n/d in lowest     *)
(* terms and stands for the double nearest to n/d                            *)

RECURSIVE GCD(_, _)
GCD(a, b) == IF b = 0 THEN a ELSE GCD(b, a % b)

Frac(n, d) ==
    LET g == GCD(IF n < 0 THEN -n ELSE n, d)
    IN  IF g = 0 THEN [n |-> 0, d |-> 1] ELSE [n |-> n \div g, d |-> d \div g]

\* JavaScript values a score_percent field can hold
NumberVal(n, d) == [t |-> "number", q |-> Frac(n, d), s |-> <<>>]
StringVal(s) == [t |-> "string", q |-> Frac(0, 1), s |-> s]
NullVal == [t |-> "null", q |-> Frac(0, 1), s |-> <<>>]
UndefinedVal == [t |-> "undefined", q |-> Frac(0, 1), s |-> <<>>]

\* parseInt on a run of decimal digits
RECURSIVE ParseIntRec(_, _, _)
ParseIntRec(ds, i, acc) ==
    IF i > Len(ds) THEN acc ELSE ParseIntRec(ds, i + 1, 10 * acc + DigitVal(ds[i]))

parseInt(ds) == ParseIntRec(ds, 1, 0)

RECURSIVE SumSeq(_)
SumSeq(xs) == IF xs = <<>> THEN 0 ELSE Head(xs) + SumSeq(Tail(xs))

-----------------------------------------------------------------------------
(* Double precision: the fraction n/d of a number stands for the IEEE 754     *)
(* double nearest to it, which is what a literal or one division gives.      *)
(* Sums, differences and toFixed are computed on that double: a sign, a      *)
(* significand of 53 bits (most significant first, <<>> for zero) and a      *)
(* binary exponent, the value being m * 2^e.  The numbers of the model are   *)
(* far from the subnormal and the overflow range.                            *)

\* the binary digits of n >= 0, most significant first, <<>> for 0
RECURSIVE BitsOf(_)
BitsOf(n) == IF n = 0 THEN <<>> ELSE Append(BitsOf(n \div 2), n % 2)

\* the integer of a run of binary digits
RECURSIVE IntOfRec(_, _, _)
IntOfRec(bs, i, acc) ==
    IF i > Len(bs) THEN acc ELSE IntOfRec(bs, i + 1, 2 * acc + bs[i])

IntOf(bs) == IntOfRec(bs, 1, 0)

StripZeros(bs) ==
    SubSeq(bs, FirstIn(1, Len(bs), LAMBDA i : bs[i] = 1, Len(bs) + 1), Len(bs))

ShiftLeft(bs, k) == IF bs = <<>> THEN <<>> ELSE bs \o [i \in 1..k |-> 0]

\* the digit of weight 2^r of bs
BitOfWeight(bs, r) == IF r < Len(bs) THEN bs[Len(bs) - r] ELSE 0

\* the same natural number in base 256, most significant digit first
ToLimbs(bs) ==
    [j \in 1..((Len(bs) + 7) \div 8) |->
        LET r == 8 * (((Len(bs) + 7) \div 8) - j)
        IN  BitOfWeight(bs, r) + 2 * BitOfWeight(bs, r + 1)
              + 4 * BitOfWeight(bs, r + 2) + 8 * BitOfWeight(bs, r + 3)
              + 16 * BitOfWeight(bs, r + 4) + 32 * BitOfWeight(bs, r + 5)
              + 64 * BitOfWeight(bs, r + 6) + 128 * BitOfWeight(bs, r + 7)]

\* 2^k for k in 0..7
Pow2(k) ==
    CASE k = 0 -> 1 [] k = 1 -> 2 [] k = 2 -> 4 [] k = 3 -> 8
      [] k = 4 -> 16 [] k = 5 -> 32 [] k = 6 -> 64 [] k = 7 -> 128

\* and back, the binary digits of a number in base 256
ToBits(ls) ==
    StripZeros([i \in 1..(8 * Len(ls)) |->
                   (ls[((i - 1) \div 8) + 1] \div Pow2(7 - ((i - 1) % 8))) % 2])

\* digit i of ls written right-aligned on n digits
LimbAt(ls, n, i) == IF i > n - Len(ls) THEN ls[i - (n - Len(ls))] ELSE 0

RECURSIVE AddRec(_, _, _, _, _, _)
AddRec(a, b, n, i, carry, acc) ==
    IF i = 0 THEN <<carry>> \o acc
    ELSE AddRec(a, b, n, i - 1,
                (LimbAt(a, n, i) + LimbAt(b, n, i) + carry) \div 256,
                <<(LimbAt(a, n, i) + LimbAt(b, n, i) + carry) % 256>> \o acc)

AddLimbs(a, b) ==
    AddRec(a, b, IF Len(a) > Len(b) THEN Len(a) ELSE Len(b),
           IF Len(a) > Len(b) THEN Len(a) ELSE Len(b), 0, <<>>)

AddBits(a, b) == ToBits(AddLimbs(ToLimbs(a), ToLimbs(b)))

\* a - b for a >= b
RECURSIVE SubRec(_, _, _, _, _, _)
SubRec(a, b, n, i, borrow, acc) ==
    IF i = 0 THEN acc
    ELSE SubRec(a, b, n, i - 1,
                IF LimbAt(a, n, i) - LimbAt(b, n, i) - borrow < 0 THEN 1 ELSE 0,
                <<(LimbAt(a, n, i) - LimbAt(b, n, i) - borrow + 256) % 256>> \o acc)

SubBits(a, b) ==
    ToBits(SubRec(ToLimbs(a), ToLimbs(b), Len(ToLimbs(a)), Len(ToLimbs(a)), 0, <<>>))

\* a < b for two runs without leading zeros
LessBits(a, b) ==
    \/ Len(a) < Len(b)
    \/ /\ Len(a) = Len(b)
       /\ \E i \in 1..Len(a) :
             /\ a[i] < b[i]
             /\ \A j \in 1..(i - 1) : a[j] = b[j]

\* long division in base 256 of ls by the integer q, 0 < q < 2^23: quotient
\* digits and remainder
RECURSIVE DivRec(_, _, _, _, _)
DivRec(ls, q, i, r, acc) ==
    IF i > Len(ls) THEN [quot |-> acc, rem |-> r]
    ELSE DivRec(ls, q, i + 1, (256 * r + ls[i]) % q,
                Append(acc, (256 * r + ls[i]) \div q))

Double(neg, m, e) == [neg |-> neg, m |-> m, e |-> e]

\* round to nearest, ties to even: Q holds at least 54 digits and stands
\* for (Q + f) * 2^e with 0 <= f < 1, f > 0 exactly when inexact
RoundBits(Q, inexact, e, neg) ==
    LET n == Len(Q)
        sticky == inexact \/ \E i \in 55..n : Q[i] = 1
        up == Q[54] = 1 /\ (sticky \/ Q[53] = 1)
        M == IF up THEN AddBits(SubSeq(Q, 1, 53), <<1>>) ELSE SubSeq(Q, 1, 53)
    IN  IF Len(M) = 54 THEN Double(neg, SubSeq(M, 1, 53), e + n - 52)
        ELSE Double(neg, M, e + n - 53)

\* the digits of the quotient of P * 2^s by q, s chosen so that there are
\* at least 54 of them
QuotientBits(P, q, s) == DivRec(ToLimbs(ShiftLeft(P, s)), q, 1, 0, <<>>)

RoundQuotient(d, e, neg) == RoundBits(ToBits(d.quot), d.rem # 0, e, neg)

\* the double nearest to P * 2^e / q, for digits P and an integer q > 0
RoundDiv(P, q, e, neg) ==
    IF P = <<>> THEN Double(neg, <<>>, 0)
    ELSE LET s == IF 54 + Len(BitsOf(q)) > Len(P)
                  THEN 54 + Len(BitsOf(q)) - Len(P) ELSE 0
         IN  RoundQuotient(QuotientBits(P, q, s), e - s, neg)

\* the double a fraction stands for
Dbl(q) == RoundDiv(BitsOf(IF q.n < 0 THEN -q.n ELSE q.n), q.d, 0, q.n < 0)

\* the sum of the magnitudes, or their difference, brought to the exponent e
AlignedSum(A, B, aNeg, bNeg, e) ==
    IF aNeg = bNeg THEN RoundDiv(AddBits(A, B), 1, e, aNeg)
    ELSE IF LessBits(A, B) THEN RoundDiv(SubBits(B, A), 1, e, bNeg)
    ELSE IF LessBits(B, A) THEN RoundDiv(SubBits(A, B), 1, e, aNeg)
    ELSE Double(FALSE, <<>>, 0)

\* a + b
DAdd(a, b) ==
    IF a.m = <<>> THEN (IF b.m = <<>> THEN Double(a.neg /\ b.neg, <<>>, 0) ELSE b)
    ELSE IF b.m = <<>> THEN a
    ELSE IF a.e < b.e
    THEN AlignedSum(a.m, ShiftLeft(b.m, b.e - a.e), a.neg, b.neg, a.e)
    ELSE AlignedSum(ShiftLeft(a.m, a.e - b.e), b.m, a.neg, b.neg, b.e)

\* a - b
DSub(a, b) == DAdd(a, Double(~b.neg, b.m, b.e))

\* Math.abs
DAbs(a) == Double(FALSE, a.m, a.e)

\* a / n for an integer n > 0
DDivInt(a, n) == RoundDiv(a.m, n, a.e, a.neg)

\* a < b for a, b >= 0
DLess(a, b) ==
    IF b.m = <<>> THEN FALSE
    ELSE IF a.m = <<>> THEN TRUE
    ELSE a.e < b.e \/ (a.e = b.e /\ LessBits(a.m, b.m))

\* a < b for any two doubles (-0 equals 0)
DLt(a, b) ==
    IF a.neg /\ a.m # <<>>
    THEN (IF b.neg /\ b.m # <<>> THEN DLess(b, a) ELSE TRUE)
    ELSE (IF b.neg /\ b.m # <<>> THEN FALSE ELSE DLess(a, b))

\* a < b for the numbers two fractions stand for
NumLess(a, b) == \E x \in {Dbl(a)} : \E y \in {Dbl(b)} : DLt(x, y)

\* xs.reduce((a, b) => a + b, 0) on doubles
RECURSIVE DSumFrom(_, _, _)
DSumFrom(xs, i, acc) ==
    IF i > Len(xs) THEN acc ELSE DSumFrom(xs, i + 1, DAdd(acc, xs[i]))

DSum(xs) == DSumFrom(xs, 1, Double(FALSE, <<>>, 0))

-----------------------------------------------------------------------------
(* extractPPTScores *)

\* section.match(/^File:\s*([^\n]+)/m)
filenameMatch(section) == FileRegexFrom(section, 0, 1)

filename(section) ==
    LET m == filenameMatch(section)
    IN  IF m.some THEN Trim(m.v) ELSE UNKNOWN

\* section.match(/<label>\s*(\d+)\/100/): the digits of the first match, or null
RECURSIVE ScoreRegexFrom(_, _, _)
ScoreRegexFrom(s, label, p) ==
    LET q == FindFrom(s, label, p)
    IN  IF q = 0 THEN None
        ELSE LET w == SkipSpaces(s, q + Len(label))
                 e == SkipDigits(s, w)
             IN  IF e > w /\ MatchAt(s, SLASH_100, e)
                 THEN Some(SubSeq(s, w, e - 1))
                 ELSE ScoreRegexFrom(s, label, q + 1)

contentScoreMatch(section) == ScoreRegexFrom(section, CONTENT_QUALITY_SCORE, 1)

structureScoreMatch(section) == ScoreRegexFrom(section, STRUCTURE_SCORE, 1)

alignmentScoreMatch(section) == ScoreRegexFrom(section, ALIGNMENT_SCORE, 1)

\* the parsed captures of the markers that matched, nulls filtered out
scores(section) ==
    LET ms == <<contentScoreMatch(section), structureScoreMatch(section),
                alignmentScoreMatch(section)>>
        found == SelectSeq(ms, LAMBDA m : m.some)
    IN  [i \in 1..Len(found) |-> parseInt(found[i].v)]

\* a mutant of Mean: the sum divided by the number of markers, not of matches
MeanOfThree(xs) == Frac(SumSeq(xs), 3)

\* scores.reduce((a, b) => a + b, 0) / scores.length
Mean(xs) == Frac(SumSeq(xs), Len(xs))

\* the score of a section: null, or the mean of the scores found
score(section) ==
    LET xs == scores(section)
    IN  IF Len(xs) > 0 THEN [some |-> TRUE, v |-> Mean(xs)]
        ELSE [some |-> FALSE, v |-> Frac(0, 1)]

\* the end (one past the last character) of the continuation lines
\* (?:\n(?!\n|Score|File:)[^\n]+)*  of a match whose last line ends before e
RECURSIVE FeedbackEnd(_, _)
FeedbackEnd(s, e) ==
    IF /\ e < Len(s)
       /\ s[e] = "\n"
       /\ s[e + 1] # "\n"
       /\ ~MatchAt(s, SCORE_WORD, e + 1)
       /\ ~MatchAt(s, FILE_COLON, e + 1)
    THEN FeedbackEnd(s, LineEnd(s, e + 1))
    ELSE e

\* section.match(/Feedback:\s*([^\n]+(?:\n(?!\n|Score|File:)[^\n]+)*)/g):
\* the matches found from index p on, left to right and not overlapping
RECURSIVE FeedbackMatchesFrom(_, _)
FeedbackMatchesFrom(s, p) ==
    LET q == FindFrom(s, FEEDBACK_COLON, p)
    IN  IF q = 0 THEN <<>>
        ELSE LET w == q + Len(FEEDBACK_COLON)
                 j == CaptureStart(s, w, SkipSpaces(s, w))
             IN  IF j = 0 THEN FeedbackMatchesFrom(s, q + 1)
                 ELSE LET e == FeedbackEnd(s, LineEnd(s, j))
                      IN  <<SubSeq(s, q, e - 1)>> \o FeedbackMatchesFrom(s, e)

feedbackMatches(section) == FeedbackMatchesFrom(section, 1)

\* m.replace(/^Feedback:\s*/, '')
StripFeedback(m) ==
    IF MatchAt(m, FEEDBACK_COLON, 1)
    THEN SubSeq(m, SkipSpaces(m, Len(FEEDBACK_COLON) + 1), Len(m))
    ELSE m

reasoning(section) ==
    LET ms == feedbackMatches(section)
    IN  Join([i \in 1..Len(ms) |-> StripFeedback(ms[i])], SEMICOLON_SPACE)

\* a mutant of Contributes: a section without a File: marker is left out
ContributesOnlyWithFileMarker(section) ==
    /\ filenameMatch(section).some
    /\ score(section).some \/ reasoning(section) # <<>>

\* if (filename && (score !== null || reasoning))
Contributes(section) ==
    /\ filename(section) # <<>>
    /\ score(section).some \/ reasoning(section) # <<>>

\* (score and reasoning are bound to their values once, as the variables are)
ScoreRecord(section) ==
    CHOOSE record \in
        {[name |-> filename(section),
          score_percent |-> IF sc.some THEN [t |-> "number", q |-> sc.v, s |-> <<>>]
                            ELSE StringVal(DASH),
          reasoning |-> IF rs # <<>> THEN rs ELSE EVALUATION_COMPLETED] :
            sc \in {score(section)}, rs \in {reasoning(section)}} : TRUE

\* extractPPTScores(result) as a function of its argument
extractPPTScores(txt) ==
    LET kept == SelectSeq(splitPPTFileSections(txt), Contributes)
    IN  [k \in 1..Len(kept) |-> ScoreRecord(kept[k])]

\* if (!result || typeof result !== 'string') return []
ExtractEarlyReturn ==
    /\ pc = "call"
    /\ entry = "extractPPTScores"
    /\ text = <<>>
    /\ pptScores' = <<>>
    /\ pc' = "done"
    /\ UNCHANGED <<entry, text, parts, idx, currentFile, currentFilename,
                   fileSections, opened, sections, secIdx, emitted>>
    /\ UNCHANGED <<renderVars, dashVars>>

\* const fileSections = splitPPTFileSections(result)
ExtractCallSplit ==
    /\ pc = "call"
    /\ entry = "extractPPTScores"
    /\ text # <<>>
    /\ pc' = "split"
    /\ UNCHANGED <<entry, text, parts, idx, currentFile, currentFilename,
                   fileSections, opened, sections, secIdx, pptScores, emitted>>
    /\ UNCHANGED <<renderVars, dashVars>>

\* one iteration of  for (const section of fileSections)
ExtractSection ==
    /\ pc = "sections"
    /\ secIdx <= Len(sections)
    /\ LET section == sections[secIdx]
       IN  /\ pptScores' = IF Contributes(section)
                           THEN Append(pptScores, ScoreRecord(section))
                           ELSE pptScores
           /\ emitted' = Append(emitted, IF Contributes(section)
                                         THEN <<ScoreRecord(section)>>
                                         ELSE <<>>)
    /\ secIdx' = secIdx + 1
    /\ UNCHANGED <<entry, pc, text, parts, idx, currentFile, currentFilename,
                   fileSections, opened, sections>>
    /\ UNCHANGED <<renderVars, dashVars>>

\* return pptScores
ExtractReturn ==
    /\ pc = "sections"
    /\ secIdx > Len(sections)
    /\ pc' = "done"
    /\ UNCHANGED <<entry, text, parts, idx, currentFile, currentFilename,
                   fileSections, opened, sections, secIdx, pptScores, emitted>>
    /\ UNCHANGED <<renderVars, dashVars>>

-----------------------------------------------------------------------------
(* Inputs of the PPT pipeline: blank-line separated blocks *)

BlkHeaderQuiz == <<"F","i","l","e",":"," ","q","u","i","z","1",".","p","p","t","x","\n","T","o","t","a","l"," ","S","l","i","d","e","s",":"," ","1","0">>
BlkHeaderB == <<"F","i","l","e",":"," ","b",".","p","p","t","x","\n","T","o","t","a","l"," ","S","l","i","d","e","s",":"," ","2">>
BlkContent == <<"C","O","N","T","E","N","T"," ","E","V","A","L","U","A","T","I","O","N","\n","C","o","n","t","e","n","t"," ","Q","u","a","l","i","t","y"," ","S","c","o","r","e",":"," ","8","0","/","1","0","0","\n","F","e","e","d","b","a","c","k",":"," ","G","o","o","d"," ","s","t","r","u","c","t","u","r","e">>
BlkDesign == <<"V","I","S","U","A","L"," ","D","E","S","I","G","N"," ","E","V","A","L","U","A","T","I","O","N","\n","S","t","r","u","c","t","u","r","e"," ","S","c","o","r","e",":"," ","6","0","/","1","0","0">>
BlkFileNoSlides == <<"F","i","l","e",":"," ","q","u","i","z","1",".","p","p","t","x","\n","A","l","i","g","n","m","e","n","t"," ","S","c","o","r","e",":"," ","2","5","0","/","1","0","0">>
BlkEvalBeforeSlides == <<"F","i","l","e",":"," ","b",".","p","p","t","x","\n","C","O","N","T","E","N","T"," ","E","V","A","L","U","A","T","I","O","N","\n","T","o","t","a","l"," ","S","l","i","d","e","s",":"," ","2">>
BlkNote == <<"n","o","t","e"," ">>
BlkBlank == <<" ">>
BlkInlineFeedback == <<"O","v","e","r","a","l","l"," ","F","e","e","d","b","a","c","k",":"," ","n","i","c","e">>
\* a Total Slides: line before the File: line and another one after it
BlkSlidesFirst == <<"T","o","t","a","l"," ","S","l","i","d","e","s",":"," ","1","\n","F","i","l","e",":"," ","a",".","p","p","t","x","\n","T","o","t","a","l"," ","S","l","i","d","e","s",":"," ","2">>
\* a File: line without a name, followed by a Total Slides: line
BlkFileNameless == <<"F","i","l","e",":","\n","T","o","t","a","l"," ","S","l","i","d","e","s",":"," ","2">>

Blocks == {BlkHeaderQuiz, BlkHeaderB, BlkContent, BlkDesign, BlkFileNoSlides,
           BlkEvalBeforeSlides, BlkNote, BlkBlank, BlkInlineFeedback,
           BlkSlidesFirst, BlkFileNameless}

BlockSeqs == UNION {[1..n -> Blocks] : n \in 0..MaxBlocks}

\* the blocks joined by the separator the backend uses between files
Texts == {Join(bs, BLANK_LINE) : bs \in BlockSeqs}

InitPPT ==
    /\ entry \in {"splitPPTFileSections", "extractPPTScores"}
    /\ pc = IF entry = "extractPPTScores" THEN "call" ELSE "split"
    /\ text \in Texts
    /\ parts = <<>>
    /\ idx = 1
    /\ currentFile = <<>>
    /\ currentFilename = <<>>
    /\ fileSections = <<>>
    /\ opened = <<>>
    /\ sections = <<>>
    /\ secIdx = 1
    /\ pptScores = <<>>
    /\ emitted = <<>>
    /\ mode = "files"
    /\ error = ""
    /\ isGenerating = FALSE
    /\ request = None
    /\ producedBy = None
    /\ students = <<>>
    /\ summary = None
    /\ result = <<>>
    /\ title = None
    /\ lastTitle = None
    /\ pptSection = <<>>
    /\ pptFilename = <<>>
    /\ studentText = Idle
    /\ studentHTML = Idle
    /\ resultPayload = Idle
    /\ reportHTML = Idle
    /\ sectionHTML = Idle
    /\ sectionText = Idle
    /\ printHTML = Idle
    /\ studentPrint = Idle
    /\ sectionPrint = Idle
    /\ workbook = Idle

NextPPT ==
    \/ SplitEarlyReturn
    \/ SplitBegin
    \/ SplitPart
    \/ SplitEnd
    \/ ExtractEarlyReturn
    \/ ExtractCallSplit
    \/ ExtractSection
    \/ ExtractReturn

SpecPPT == InitPPT /\ [][NextPPT]_vars

-----------------------------------------------------------------------------
(* Properties of splitPPTFileSections and extractPPTScores *)

\* the call has returned; `sections` is what splitPPTFileSections returned
\* for the non-empty text (directly, or to extractPPTScores)
SplitReturned == pc = "done" /\ text # <<>>

\* extractPPTScores has returned pptScores
ExtractReturned == pc = "done" /\ entry = "extractPPTScores"

\* the non-blank blocks of a text, trimmed, in order
BlocksOf(s) ==
    LET ps == NonBlankParts(s) IN [i \in 1..Len(ps) |-> Trim(ps[i])]

RECURSIVE ConcatAll(_)
ConcatAll(seqs) ==
    IF seqs = <<>> THEN <<>> ELSE Head(seqs) \o ConcatAll(Tail(seqs))

BlocksOfAll(secs) == ConcatAll([i \in 1..Len(secs) |-> BlocksOf(secs[i])])

\* C1: for a non-empty input the splitter returns a non-empty sequence of
\* sections, and the blocks of the sections read in order are exactly the
\* input's non-blank blocks, trimmed, in their original order.
C1_BlocksPreserved ==
    SplitReturned =>
        /\ Len(sections) > 0
        /\ BlocksOfAll(sections) = BlocksOf(text)

\* C1 witness: an input of three blocks was split into at least two sections
C1_Witness ==
    /\ SplitReturned
    /\ Len(BlocksOf(text)) = 3
    /\ Len(sections) >= 2

NoHeaderBlock(s) ==
    LET bs == BlocksOf(s) IN \A i \in 1..Len(bs) : ~isMainFileHeader(bs[i])

\* the filename a section opens with, when its first block is a new-file header
HeaderName(section) ==
    LET bs == BlocksOf(section)
    IN  IF bs # <<>> /\ isMainFileHeader(bs[1])
        THEN extractedFilename(bs[1]) ELSE None

\* C3 (as claimed): no two sections of the result open with a new-file header
\* carrying the same filename.
C3_OneSectionPerFile ==
    SplitReturned =>
        \A i, j \in 1..Len(sections) :
            (i < j /\ HeaderName(sections[i]).some)
                => HeaderName(sections[i]) # HeaderName(sections[j])

\* the markers of a section that matched, as the claim counts them
MarkersPresent(section) ==
    SelectSeq(<<contentScoreMatch(section), structureScoreMatch(section),
                alignmentScoreMatch(section)>>, LAMBDA m : m.some)

ExampleText == Join(<<BlkHeaderQuiz, BlkContent, BlkDesign>>, BLANK_LINE)

ExampleRecord ==
    [name |-> <<"q","u","i","z","1",".","p","p","t","x">>,
     score_percent |-> [t |-> "number", q |-> [n |-> 70, d |-> 1], s |-> <<>>],
     reasoning |-> <<"G","o","o","d"," ","s","t","r","u","c","t","u","r","e">>]

\* C4: the score of every record is the arithmetic mean of the integers of the
\* markers present in its section (one to three of them); a section without a
\* marker gets the unscored marker '-', never a number; the example text of
\* the specification gives exactly one record, score 70, 'Good structure'.
C4_ScoreIsMean ==
    ExtractReturned =>
        /\ \A k \in 1..Len(emitted) :
             \A r \in {emitted[k][i] : i \in 1..Len(emitted[k])} :
                LET ms == MarkersPresent(sections[k])
                    total == SumSeq([i \in 1..Len(ms) |-> parseInt(ms[i].v)])
                IN  IF Len(ms) = 0
                    THEN r.score_percent = StringVal(DASH)
                    ELSE /\ r.score_percent.t = "number"
                         /\ r.score_percent.q.n * Len(ms)
                               = total * r.score_percent.q.d
        /\ text = ExampleText => pptScores = <<ExampleRecord>>

\* C4 witness: the example text was extracted to its one record with score 70
C4_Witness ==
    /\ ExtractReturned
    /\ text = ExampleText
    /\ Len(pptScores) = 1
    /\ pptScores[1].score_percent.q = [n |-> 70, d |-> 1]

\* C5 (as claimed): every numeric score of a record lies in [0, 100].
C5_ScoreInRange ==
    ExtractReturned => \A i \in 1..Len(pptScores) :
        pptScores[i].score_percent.t = "number" =>
            /\ 0 <= pptScores[i].score_percent.q.n
            /\ pptScores[i].score_percent.q.n <= 100 * pptScores[i].score_percent.q.d

HasScoreOrFeedback(section) ==
    Len(MarkersPresent(section)) > 0 \/ feedbackMatches(section) # <<>>

\* C6 (as claimed): a section pushes a record only if a File: marker is
\* present in it and it has a score or feedback; there are never more
\* records than sections.
C6_RecordOnlyWithFileMarker ==
    ExtractReturned =>
        /\ \A k \in 1..Len(emitted) :
              emitted[k] # <<>> =>
                 /\ filenameMatch(sections[k]).some
                 /\ HasScoreOrFeedback(sections[k])
        /\ Len(pptScores) <= Len(sections)

\* C6 (amended): a section pushes a record exactly when it has a resolved
\* score or a Feedback: match, whether or not a File: marker is present (the
\* record is then named 'Unknown'); a section with neither pushes nothing, and
\* there are never more records than sections.
C6_RecordIffScoreOrFeedback ==
    ExtractReturned =>
        /\ Len(emitted) = Len(sections)
        /\ \A k \in 1..Len(emitted) :
              /\ Len(emitted[k]) <= 1
              /\ emitted[k] # <<>> <=> HasScoreOrFeedback(sections[k])
              /\ (emitted[k] # <<>> /\ ~filenameMatch(sections[k]).some)
                    => emitted[k][1].name = UNKNOWN
        /\ pptScores = ConcatAll(emitted)
        /\ Len(pptScores) <= Len(sections)

\* C6 witness: a section without a File: marker pushed a record named Unknown
C6_Witness ==
    ExtractReturned /\ \E k \in 1..Len(emitted) :
        /\ ~filenameMatch(sections[k]).some
        /\ emitted[k] # <<>>
        /\ emitted[k][1].name = UNKNOWN

-----------------------------------------------------------------------------
(* Values and conversions the renderers use *)

\* JavaScript truthiness of an optional string: present and not ''
Truthy(o) == o.some /\ o.v # <<>>

\* x ? String(x) : dflt
StrOr(o, dflt) == IF Truthy(o) THEN o.v ELSE dflt

\* a number that may be NaN
Finite(q) == [fin |-> TRUE, q |-> q]
NaN == [fin |-> FALSE, q |-> Frac(0, 1)]

RECURSIVE Pow10(_)
Pow10(k) == IF k = 0 THEN 1 ELSE 10 * Pow10(k - 1)

\* Number(s) is Infinity or -Infinity: isFinite is false as for NaN
InfiniteNumber == [fin |-> FALSE, q |-> Frac(1, 1)]

INFINITY_WORD == <<"I","n","f","i","n","i","t","y">>

\* the value of a digit of a binary, octal or hexadecimal literal, 16 for any
\* other character
RadixVal(c) ==
    CASE IsDigit(c) -> DigitVal(c)
      [] c \in {"a", "A"} -> 10 [] c \in {"b", "B"} -> 11 [] c \in {"c", "C"} -> 12
      [] c \in {"d", "D"} -> 13 [] c \in {"e", "E"} -> 14 [] c \in {"f", "F"} -> 15
      [] OTHER -> 16

RECURSIVE ParseRadixRec(_, _, _, _)
ParseRadixRec(ds, radix, i, acc) ==
    IF i > Len(ds) THEN acc
    ELSE ParseRadixRec(ds, radix, i + 1, radix * acc + RadixVal(ds[i]))

\* the radix of a literal 0b.., 0o.., 0x.. (either case), 0 for any other string
RadixOf(t) ==
    IF Len(t) < 3 \/ t[1] # "0" THEN 0
    ELSE LET r == CASE t[2] \in {"b", "B"} -> 2 [] t[2] \in {"o", "O"} -> 8
                    [] t[2] \in {"x", "X"} -> 16 [] OTHER -> 0
         IN  IF r # 0 /\ \A k \in 3..Len(t) : RadixVal(t[k]) < r THEN r ELSE 0

\* the decimal literal u without its sign: digits[.digits][e[+-]digits] or
\* .digits[e[+-]digits]; its digits, the power of ten they are scaled by, and
\* whether u is such a literal
DecimalLiteral(u) ==
    LET a == SkipDigits(u, 1)
        dot == a <= Len(u) /\ u[a] = "."
        b == IF dot THEN SkipDigits(u, a + 1) ELSE a
        fracLen == IF dot THEN b - a - 1 ELSE 0
        hasExp == b <= Len(u) /\ u[b] \in {"e", "E"}
        expSigned == hasExp /\ b + 1 <= Len(u) /\ u[b + 1] \in {"+", "-"}
        c == IF expSigned THEN b + 2 ELSE b + 1
        expDigits == IF hasExp THEN SubSeq(u, c, Len(u)) ELSE <<>>
        expVal == IF expSigned /\ u[b + 1] = "-" THEN -parseInt(expDigits)
                  ELSE parseInt(expDigits)
        ok == /\ (a - 1) + fracLen > 0
              /\ IF hasExp
                 THEN expDigits # <<>> /\ \A k \in 1..Len(expDigits) : IsDigit(expDigits[k])
                 ELSE b = Len(u) + 1
    IN  [ok |-> ok,
         mag |-> parseInt(SubSeq(u, 1, a - 1) \o SubSeq(u, a + 1, b - 1)),
         scale |-> IF ok THEN expVal - fracLen ELSE 0]

\* mag * 10^scale, signed
Scaled(mag, scale, neg) ==
    IF scale >= 0 THEN Frac((IF neg THEN -mag ELSE mag) * Pow10(scale), 1)
    ELSE Frac(IF neg THEN -mag ELSE mag, Pow10(-scale))

\* Number(s) for a string: white space trimmed, '' is 0, then a binary, octal
\* or hexadecimal literal without sign, or a decimal literal with an optional
\* sign, fraction and exponent, or [+-]Infinity; anything else is NaN.  The
\* value is the fraction the literal denotes (its terms below 2^31).
\* (the trimmed string t and the literal are bound to their values once)
StringToNumber(s) ==
    CHOOSE number \in
        {IF t = <<>> THEN Finite(Frac(0, 1))
         ELSE IF RadixOf(t) # 0
         THEN Finite(Frac(ParseRadixRec(t, RadixOf(t), 3, 0), 1))
         ELSE IF t \in {INFINITY_WORD, <<"+">> \o INFINITY_WORD, <<"-">> \o INFINITY_WORD}
         THEN InfiniteNumber
         ELSE CHOOSE decimal \in
                  {IF lit.ok THEN Finite(Scaled(lit.mag, lit.scale, t[1] = "-")) ELSE NaN :
                      lit \in {DecimalLiteral(IF t[1] \in {"+", "-"}
                                              THEN SubSeq(t, 2, Len(t)) ELSE t)}} : TRUE :
            t \in {Trim(s)}} : TRUE

\* Number(value)
ToNumber(val) ==
    CASE val.t = "number" -> Finite(val.q)
      [] val.t = "string" -> StringToNumber(val.s)
      [] val.t = "null" -> Finite(Frac(0, 1))
      [] val.t = "undefined" -> NaN

DigitChar(d) ==
    CASE d = 0 -> "0" [] d = 1 -> "1" [] d = 2 -> "2" [] d = 3 -> "3"
      [] d = 4 -> "4" [] d = 5 -> "5" [] d = 6 -> "6" [] d = 7 -> "7"
      [] d = 8 -> "8" [] d = 9 -> "9"

\* String(n) for an integer n >= 0
RECURSIVE IntToStr(_)
IntToStr(n) ==
    IF n < 10 THEN <<DigitChar(n)>>
    ELSE IntToStr(n \div 10) \o <<DigitChar(n % 10)>>

\* 100 * m as binary digits
TimesHundred(m) ==
    AddBits(AddBits(ShiftLeft(m, 6), ShiftLeft(m, 5)), ShiftLeft(m, 2))

\* the integer n for which n / 100 is nearest to X * 2^e, the larger one of
\* two (X = 100 * m, e < 0: the digits above the binary point, plus one when
\* the first digit below it is set)
Hundredths(X, e) ==
    IntOf(SubSeq(X, 1, Len(X) + e))
      + (IF -e <= Len(X) THEN X[Len(X) + e + 1] ELSE 0)

TwoDecimals(h) ==
    IntToStr(h \div 100) \o <<".">>
      \o <<DigitChar((h % 100) \div 10), DigitChar(h % 10)>>

\* Number.prototype.toFixed(2) of a double below 10^21: '-' when x < 0, then
\* the magnitude rounded to hundredths
DToFixed2(x) ==
    IF x.m = <<>> THEN TwoDecimals(0)
    ELSE (IF x.neg THEN <<"-">> ELSE <<>>)
           \o TwoDecimals(Hundredths(TimesHundred(x.m), x.e))

\* toFixed(2) of the number a fraction stands for
ToFixed2(q) == DToFixed2(Dbl(q))

\* q >= 100
AtLeast100(q) == ~NumLess(q, Frac(100, 1))

\* value ?? '-' for a value that is no number
NullishOrDash(val) == IF val.t = "string" THEN val.s ELSE DASH

\* s.replace(/c/g, repl) for a single character c
RECURSIVE ReplaceRange(_, _, _, _, _)
ReplaceRange(s, c, repl, lo, hi) ==
    IF lo > hi THEN <<>>
    ELSE IF lo = hi THEN (IF s[lo] = c THEN repl ELSE <<s[lo]>>)
    ELSE LET mid == (lo + hi) \div 2
         IN  ReplaceRange(s, c, repl, lo, mid) \o ReplaceRange(s, c, repl, mid + 1, hi)

ReplaceAll(s, c, repl) == ReplaceRange(s, c, repl, 1, Len(s))

AMP == <<"&","a","m","p",";">>
LT == <<"&","l","t",";">>
GT == <<"&","g","t",";">>
BR == <<"<","b","r",">">>
STUDENT == <<"S","t","u","d","e","n","t">>
REPORT == <<"R","e","p","o","r","t">>
NONE_TEXT == <<"N","o","n","e">>
CORRECT == <<"C","o","r","r","e","c","t">>
INCORRECT == <<"I","n","c","o","r","r","e","c","t">>

\* one piece of an export: a labelled value, a heading or a fixed note; the
\* value is the text as it is embedded, the wrapper around it (label, colon,
\* line break, tags, style sheet) is left out
Item(kind, label, n, value) ==
    [kind |-> kind, label |-> label, n |-> n, value |-> value]

-----------------------------------------------------------------------------
(* fileDownloaders.jsx: buildStudentText and the copy of it in downloadResult *)

\* typeof s?.score_percent === 'number' ? s.score_percent : Number(s?.score_percent)
scNum(s) ==
    IF s.score_percent.t = "number" THEN Finite(s.score_percent.q)
    ELSE ToNumber(s.score_percent)

\* isFinite(scNum) ? scNum.toFixed(2) : (s?.score_percent ?? '-')
\* (scNum is bound to its value once, as the const is)
TextScore(s) ==
    CHOOSE sc \in {IF n.fin THEN ToFixed2(n.q) ELSE NullishOrDash(s.score_percent) :
                      n \in {scNum(s)}} : TRUE

\* isFinite(scNum) && scNum >= 100 ? 'None' : (reason || '')
TextNeedImp(s) ==
    IF \E n \in {scNum(s)} : n.fin /\ AtLeast100(n.q) THEN NONE_TEXT
    ELSE StrOr(s.reasoning, <<>>)

\* a mutant of TextDetailItems: every is_correct but false and a missing one
\* counts as correct
TextDetailItemsLooseTrue(d, i) ==
    <<Item("field", "Q", i, StrOr(d.question, DASH)),
      Item("field", "Answer", i, StrOr(d.student_answer, DASH)),
      Item("field", "Correct answer", i, StrOr(d.correct_answer, DASH)),
      Item("field", "Evaluation", i,
           IF d.is_correct \in {"true", "'true'"} THEN CORRECT ELSE INCORRECT)>>
    \o (IF Truthy(d.feedback)
        THEN <<Item("field", "Feedback", i, d.feedback.v)>> ELSE <<>>)

\* the lines of one question detail, the empty feedback line filtered out
TextDetailItems(d, i) ==
    <<Item("field", "Q", i, StrOr(d.question, DASH)),
      Item("field", "Answer", i, StrOr(d.student_answer, DASH)),
      Item("field", "Correct answer", i, StrOr(d.correct_answer, DASH)),
      Item("field", "Evaluation", i,
           IF d.is_correct = "true" THEN CORRECT ELSE INCORRECT)>>
    \o (IF Truthy(d.feedback)
        THEN <<Item("field", "Feedback", i, d.feedback.v)>> ELSE <<>>)

RECURSIVE ConcatItems(_)
ConcatItems(seqs) ==
    IF seqs = <<>> THEN <<>> ELSE Head(seqs) \o ConcatItems(Tail(seqs))

\* header.concat(details) of one record; dfltName is 'Student' or '-'
TextRecordItems(s, dfltName) ==
    <<Item("field", "Student name", 0, StrOr(s.name, dfltName)),
      Item("field", "Score", 0, TextScore(s)),
      Item("field", "Reason", 0, StrOr(s.reasoning, <<>>)),
      Item("field", "Need to improve", 0, TextNeedImp(s))>>
    \o (IF Len(s.details) > 0
        THEN <<Item("heading", "Per-question evaluation", 0, <<>>)>>
             \o ConcatItems([i \in 1..Len(s.details) |->
                                TextDetailItems(s.details[i], i)])
        ELSE <<>>)

buildStudentText(s) == TextRecordItems(s, STUDENT)

\* hasStructured = summary || (scores && scores.length > 0)
hasStructured(sm, scs) == Truthy(sm) \/ Len(scs) > 0

\* the payload of downloadResult
ResultPayload(res, sm, scs) ==
    IF hasStructured(sm, scs)
    THEN ConcatItems([i \in 1..Len(scs) |-> TextRecordItems(scs[i], DASH)])
    ELSE <<Item("raw", "", 0, res)>>

-----------------------------------------------------------------------------
(* reportBuilders: buildReportHTML, buildStudentHTML, buildReportHTMLForSection *)

\* a mutant of ResolveTitle: the current title preferred over the last used one
ResolveTitleCurrentFirst(ttl, last, fallback) ==
    IF Truthy(ttl) /\ Trim(ttl.v) # <<>> THEN Trim(ttl.v)
    ELSE IF Truthy(last) /\ Trim(last.v) # <<>> THEN Trim(last.v)
    ELSE fallback

\* (lastTitle && lastTitle.trim()) || (title && title.trim()) || fallback
ResolveTitle(ttl, last, fallback) ==
    IF Truthy(last) /\ Trim(last.v) # <<>> THEN Trim(last.v)
    ELSE IF Truthy(ttl) /\ Trim(ttl.v) # <<>> THEN Trim(ttl.v)
    ELSE fallback

titleText(ttl, last) == ResolveTitle(ttl, last, REPORT)

\* typeof s?.score_percent === 'number' ? s.score_percent.toFixed(2)
\*                                       : (s?.score_percent ?? '-')
HtmlScore(s) ==
    IF s.score_percent.t = "number" THEN ToFixed2(s.score_percent.q)
    ELSE NullishOrDash(s.score_percent)

\* (typeof s?.score_percent === 'number' && s.score_percent >= 100)
\*    ? 'None' : (reason || '')
HtmlNeedImp(s) ==
    IF s.score_percent.t = "number" /\ AtLeast100(s.score_percent.q)
    THEN NONE_TEXT
    ELSE StrOr(s.reasoning, <<>>)

HtmlDetailItems(d, i) ==
    <<Item("field", "Q", i, StrOr(d.question, DASH)),
      Item("field", "Answer", i, StrOr(d.student_answer, DASH)),
      Item("field", "Correct answer", i, StrOr(d.correct_answer, DASH)),
      Item("field", "Evaluation", i,
           IF d.is_correct = "true" THEN CORRECT ELSE INCORRECT)>>
    \o (IF Truthy(d.feedback)
        THEN <<Item("field", "Feedback", i, d.feedback.v)>> ELSE <<>>)

\* the <div class="student"> block of one record
HtmlRecordItems(s, dfltName) ==
    <<Item("field", "Student name", 0, StrOr(s.name, dfltName)),
      Item("field", "Score", 0, HtmlScore(s)),
      Item("field", "Reason", 0, StrOr(s.reasoning, <<>>)),
      Item("field", "Need to improve", 0, HtmlNeedImp(s))>>
    \o (IF Len(s.details) > 0
        THEN <<Item("heading", "Per-question evaluation", 0, <<>>)>>
             \o ConcatItems([i \in 1..Len(s.details) |->
                                HtmlDetailItems(s.details[i], i)])
        ELSE <<Item("note", "No per-question details available.", 0, <<>>)>>)

buildStudentHTML(s, ttl, last) ==
    <<Item("title", "h1", 0, titleText(ttl, last))>>
    \o HtmlRecordItems(s, STUDENT)

\* (result || '').replace(/</g, '&lt;').replace(/>/g, '&gt;')
EscapeLtGt(s) == ReplaceAll(ReplaceAll(s, "<", LT), ">", GT)

buildReportHTML(scs, res, ttl, last) ==
    <<Item("title", "h1", 0, titleText(ttl, last))>>
    \o (IF Len(scs) > 0
        THEN ConcatItems([i \in 1..Len(scs) |->
                 HtmlRecordItems(scs[i], STUDENT \o <<" ">> \o IntToStr(i))])
        ELSE <<Item("raw", "pre", 0, EscapeLtGt(res))>>)

\* .replace(/&/g, '&amp;').replace(/</g, '&lt;').replace(/>/g, '&gt;')
\* .replace(/\n/g, '<br>')
EscapeSection(s) ==
    ReplaceAll(ReplaceAll(ReplaceAll(ReplaceAll(s, "&", AMP), "<", LT), ">", GT),
               "\n", BR)

\* section.match(/CONTENT EVALUATION[\s\S]*?(?=VISUAL DESIGN EVALUATION|$)/)[0]
contentMatch(sec) ==
    LET a == FindFrom(sec, CONTENT_EVALUATION, 1)
        b == FindFrom(sec, VISUAL_DESIGN_EVALUATION, a + Len(CONTENT_EVALUATION))
    IN  IF a = 0 THEN <<>>
        ELSE SubSeq(sec, a, IF b = 0 THEN Len(sec) ELSE b - 1)

\* section.match(/VISUAL DESIGN EVALUATION[\s\S]*?$/)[0]
designMatch(sec) ==
    LET a == FindFrom(sec, VISUAL_DESIGN_EVALUATION, 1)
    IN  IF a = 0 THEN <<>> ELSE SubSeq(sec, a, Len(sec))

buildReportHTMLForSection(sec, fname, ttl, last) ==
    <<Item("title", "h1", 0, titleText(ttl, last)),
      Item("filename", "h2", 0, fname)>>
    \o (IF Includes(sec, CONTENT_EVALUATION) /\ Includes(sec, VISUAL_DESIGN_EVALUATION)
        THEN <<Item("section", "CONTENT EVALUATION", 0,
                    EscapeSection(Trim(contentMatch(sec)))),
               Item("section", "VISUAL DESIGN EVALUATION", 0,
                    EscapeSection(Trim(designMatch(sec))))>>
        ELSE <<Item("section", "", 0, EscapeSection(sec))>>)

-----------------------------------------------------------------------------
(* Download names: the resolved title and the filename sanitizer *)

REPORT_LOWER == <<"r","e","p","o","r","t">>
OUTPUT == <<"o","u","t","p","u","t">>
STUDENT_UNDERSCORE == <<"S","t","u","d","e","n","t","_">>

LETTERS ==
    {"a","b","c","d","e","f","g","h","i","j","k","l","m",
     "n","o","p","q","r","s","t","u","v","w","x","y","z",
     "A","B","C","D","E","F","G","H","I","J","K","L","M",
     "N","O","P","Q","R","S","T","U","V","W","X","Y","Z"}

\* a character of the class [a-z0-9-_ ] under the flag i
IsNameChar(c) == c \in LETTERS \/ IsDigit(c) \/ c \in {"-", "_", " "}

\* .replace(/[^a-z0-9-_ ]/gi, '')
StripOthers(s) == SelectSeq(s, IsNameChar)

\* .replace(/\s+/g, '_'): every maximal run of white space becomes one '_'
RECURSIVE CollapseFrom(_, _)
CollapseFrom(s, i) ==
    IF i > Len(s) THEN <<>>
    ELSE IF IsSpace(s[i]) THEN <<"_">> \o CollapseFrom(s, SkipSpaces(s, i))
    ELSE LET j == FirstIn(i, Len(s), LAMBDA k : IsSpace(s[k]), Len(s) + 1)
         IN  SubSeq(s, i, j - 1) \o CollapseFrom(s, j)

\* a mutant of CollapseSpaces: /\s/g, every white space character becomes a '_'
CollapseEachSpace(s) == [k \in 1..Len(s) |-> IF IsSpace(s[k]) THEN "_" ELSE s[k]]

CollapseSpaces(s) == CollapseFrom(s, 1)

\* baseTitle.replace(/[^a-z0-9-_ ]/gi, '').replace(/\s+/g, '_')
safeTitle(base) == CollapseSpaces(StripOthers(base))

\* (student.name || `Student_${index + 1}`) sanitized; i is index + 1
studentName(s, i) ==
    safeTitle(IF Truthy(s.name) THEN s.name.v ELSE STUDENT_UNDERSCORE \o IntToStr(i))

\* the name given to a download: `${safeTitle}.ext` when there is no second
\* fragment (part is null), `${safeTitle}_${part}.ext` when there is one, be
\* it empty; `_${date}_${time}` comes before the extension when stamped
FileName(safe, part, stamped, ext) ==
    [safe |-> safe, part |-> part, stamped |-> stamped, ext |-> ext]

\* a download: the content of the blob, the resolved title and the file name
Saved(i, items, base, file) ==
    [state |-> "done", who |-> i, items |-> items, base |-> base, file |-> file]

\* window.open returned null: the print export stops before writing
Blocked == [state |-> "blocked", who |-> 0, items |-> <<>>]

-----------------------------------------------------------------------------
(* The export handlers *)

\* downloadStudentTxt(student, index, title, lastTitle), student = scores[i]
DownloadStudentTxt(i) ==
    /\ i \in 1..Len(students)
    /\ LET base == ResolveTitle(title, lastTitle, REPORT_LOWER)
       IN  studentText' =
               Saved(i, buildStudentText(students[i]), base,
                     FileName(safeTitle(base), Some(studentName(students[i], i)), TRUE, "txt"))
    /\ UNCHANGED <<studentHTML, resultPayload, reportHTML, sectionHTML, sectionText>>
    /\ UNCHANGED <<renderIn, pptVars, dashVars, printOut>>

\* downloadStudentDoc(student, index, title, lastTitle), student = scores[i]
DownloadStudentDoc(i) ==
    /\ i \in 1..Len(students)
    /\ LET base == ResolveTitle(title, lastTitle, REPORT_LOWER)
       IN  studentHTML' =
               Saved(i, buildStudentHTML(students[i], title, lastTitle), base,
                     FileName(safeTitle(base), Some(studentName(students[i], i)), FALSE, "doc"))
    /\ UNCHANGED <<studentText, resultPayload, reportHTML, sectionHTML, sectionText>>
    /\ UNCHANGED <<renderIn, pptVars, dashVars, printOut>>

\* downloadStudentPdf(student, index, title, lastTitle), student = scores[i];
\* win is whether window.open gave a window
DownloadStudentPdf(i) ==
    /\ i \in 1..Len(students)
    /\ \E win \in BOOLEAN :
          studentPrint' = IF win
                          THEN Done(i, buildStudentHTML(students[i], title, lastTitle))
                          ELSE Blocked
    /\ UNCHANGED <<printHTML, sectionPrint, workbook>>
    /\ UNCHANGED <<studentText, studentHTML, resultPayload, reportHTML, sectionHTML, sectionText>>
    /\ UNCHANGED <<renderIn, pptVars, dashVars>>

\* downloadResult(result, summary, scores, title, lastTitle)
DownloadResult ==
    /\ LET base == ResolveTitle(title, lastTitle, OUTPUT)
       IN  resultPayload' =
               IF result = <<>> /\ ~hasStructured(summary, students)
               THEN NoOp
               ELSE Saved(0, ResultPayload(result, summary, students), base,
                          FileName(safeTitle(base), None, TRUE, "txt"))
    /\ UNCHANGED <<studentText, studentHTML, reportHTML, sectionHTML, sectionText>>
    /\ UNCHANGED <<renderIn, pptVars, dashVars, printOut>>

\* downloadDoc(result, scores, title, lastTitle)
DownloadDoc ==
    /\ LET base == ResolveTitle(title, lastTitle, REPORT_LOWER)
       IN  reportHTML' =
               IF result = <<>> /\ Len(students) = 0
               THEN NoOp
               ELSE Saved(0, buildReportHTML(students, result, title, lastTitle), base,
                          FileName(safeTitle(base), None, FALSE, "doc"))
    /\ UNCHANGED <<studentText, studentHTML, resultPayload, sectionHTML, sectionText>>
    /\ UNCHANGED <<renderIn, pptVars, dashVars, printOut>>

\* a mutant of DownloadPdf: the print export built without the last used title
DownloadPdfWithoutLastTitle ==
    /\ \E win \in BOOLEAN :
          printHTML' = IF result = <<>> /\ Len(students) = 0
                       THEN NoOp
                       ELSE IF win
                       THEN Done(0, buildReportHTML(students, result, title, None))
                       ELSE Blocked
    /\ UNCHANGED <<studentPrint, sectionPrint, workbook>>
    /\ UNCHANGED <<studentText, studentHTML, resultPayload, reportHTML, sectionHTML, sectionText>>
    /\ UNCHANGED <<renderIn, pptVars, dashVars>>

\* downloadPdf(result, scores, title, lastTitle)
DownloadPdf ==
    /\ \E win \in BOOLEAN :
          printHTML' = IF result = <<>> /\ Len(students) = 0
                       THEN NoOp
                       ELSE IF win
                       THEN Done(0, buildReportHTML(students, result, title, lastTitle))
                       ELSE Blocked
    /\ UNCHANGED <<studentPrint, sectionPrint, workbook>>
    /\ UNCHANGED <<studentText, studentHTML, resultPayload, reportHTML, sectionHTML, sectionText>>
    /\ UNCHANGED <<renderIn, pptVars, dashVars>>

\* downloadPPTSectionDoc(section, filename, title, lastTitle)
DownloadPPTSectionDoc ==
    /\ LET base == ResolveTitle(title, lastTitle, REPORT_LOWER)
       IN  sectionHTML' =
               Saved(0, buildReportHTMLForSection(pptSection, pptFilename,
                                                  title, lastTitle), base,
                     FileName(safeTitle(base), Some(safeTitle(pptFilename)), FALSE, "doc"))
    /\ UNCHANGED <<studentText, studentHTML, resultPayload, reportHTML, sectionText>>
    /\ UNCHANGED <<renderIn, pptVars, dashVars, printOut>>

\* downloadPPTSectionTxt(section, filename, title, lastTitle)
DownloadPPTSectionTxt ==
    /\ LET base == ResolveTitle(title, lastTitle, REPORT_LOWER)
       IN  sectionText' =
               Saved(0, <<Item("raw", "", 0, pptSection)>>, base,
                     FileName(safeTitle(base), Some(safeTitle(pptFilename)), TRUE, "txt"))
    /\ UNCHANGED <<studentText, studentHTML, resultPayload, reportHTML, sectionHTML>>
    /\ UNCHANGED <<renderIn, pptVars, dashVars, printOut>>

\* downloadPPTSectionPdf(section, filename, title, lastTitle)
DownloadPPTSectionPdf ==
    /\ \E win \in BOOLEAN :
          sectionPrint' = IF win
                          THEN Done(0, buildReportHTMLForSection(pptSection, pptFilename,
                                                                title, lastTitle))
                          ELSE Blocked
    /\ UNCHANGED <<printHTML, studentPrint, workbook>>
    /\ UNCHANGED <<studentText, studentHTML, resultPayload, reportHTML, sectionHTML, sectionText>>
    /\ UNCHANGED <<renderIn, pptVars, dashVars>>

-----------------------------------------------------------------------------
(* excelExport.jsx: downloadExcel *)

PIPE == <<" ","|"," ">>
NOT_AVAILABLE == <<"N","/","A">>

\* the feedback of the details, each under its question label
extractFeedback(s) ==
    LET labelled(i) == <<"Q">> \o IntToStr(i) \o <<":"," ">> \o Trim(s.details[i].feedback.v)
        kept == SelectSeq([i \in 1..Len(s.details) |-> i],
                          LAMBDA i : Truthy(s.details[i].feedback)
                                       /\ Trim(s.details[i].feedback.v) # <<>>)
    IN  IF kept = <<>> THEN DASH
        ELSE Join([k \in 1..Len(kept) |-> labelled(kept[k])], PIPE)

\* the records with a numeric score, as the summary uses them
validScores(raw) ==
    LET valid == SelectSeq(raw, LAMBDA s : s.score_percent.t = "number")
    IN  [k \in 1..Len(valid) |->
            [name |-> StrOr(valid[k].name, DASH),
             score |-> valid[k].score_percent.q,
             reasoning |-> StrOr(valid[k].reasoning, DASH),
             feedback |-> extractFeedback(valid[k])]]

scoresArray(raw) == [k \in 1..Len(validScores(raw)) |-> validScores(raw)[k].score]

\* the doubles of an array of numbers
DoublesOf(qs) == [k \in 1..Len(qs) |-> Dbl(qs[k])]

\* a mutant of average: the sum divided by the number of all records
averageOverAll(raw) ==
    IF Len(scoresArray(raw)) > 0
    THEN DToFixed2(DDivInt(DSum(DoublesOf(scoresArray(raw))), Len(raw)))
    ELSE NOT_AVAILABLE

average(raw) ==
    IF Len(scoresArray(raw)) > 0
    THEN DToFixed2(DDivInt(DSum(DoublesOf(scoresArray(raw))), Len(scoresArray(raw))))
    ELSE NOT_AVAILABLE

\* Math.max(...scoresArray), Math.min(...scoresArray) of a non-empty array
maxScore(raw) ==
    LET qs == scoresArray(raw)
    IN  qs[CHOOSE k \in 1..Len(qs) : \A j \in 1..Len(qs) : ~NumLess(qs[k], qs[j])]

minScore(raw) ==
    LET qs == scoresArray(raw)
    IN  qs[CHOOSE k \in 1..Len(qs) : \A j \in 1..Len(qs) : ~NumLess(qs[j], qs[k])]

\* Math.abs(a - b) < 0.01
Near(a, b) ==
    \E x \in {Dbl(a)} : \E y \in {Dbl(b)} :
        \E d \in {DAbs(DSub(x, y))} : DLess(d, Dbl(Frac(1, 100)))

\* a mutant of highestStudents: only the first record at the maximum
highestFirstOnly(raw) ==
    IF Len(scoresArray(raw)) > 0
    THEN <<validScores(raw)[CHOOSE k \in 1..Len(scoresArray(raw)) :
                               /\ scoresArray(raw)[k] = maxScore(raw)
                               /\ \A j \in 1..(k - 1) : scoresArray(raw)[j] # maxScore(raw)]>>
    ELSE <<>>

highestStudents(raw) ==
    IF Len(scoresArray(raw)) > 0
    THEN SelectSeq(validScores(raw), LAMBDA v : Near(v.score, maxScore(raw)))
    ELSE <<>>

lowestStudents(raw) ==
    IF Len(scoresArray(raw)) > 0
    THEN SelectSeq(validScores(raw), LAMBDA v : Near(v.score, minScore(raw)))
    ELSE <<>>

\* a mutant of sortKey: a record without a numeric score ranked as a score of 0
sortKeyUnscoredZero(s) ==
    IF s.score_percent.t = "number" THEN s.score_percent.q ELSE Frac(0, 1)

\* typeof a.score_percent === 'number' ? a.score_percent : -1
sortKey(s) ==
    IF s.score_percent.t = "number" THEN s.score_percent.q ELSE Frac(-1, 1)

\* x placed into a sequence sorted by (a, b) => scoreB - scoreA, behind the
\* records that do not rank below it (Array.prototype.sort is stable)
InsertByScore(sorted, x) ==
    LET k == FirstIn(1, Len(sorted),
                     LAMBDA j : NumLess(sortKey(sorted[j]), sortKey(x)),
                     Len(sorted) + 1)
    IN  SubSeq(sorted, 1, k - 1) \o <<x>> \o SubSeq(sorted, k, Len(sorted))

\* [...rawScores].sort((a, b) => scoreB - scoreA)
RECURSIVE sortedScores(_)
sortedScores(raw) ==
    IF raw = <<>> THEN <<>>
    ELSE InsertByScore(sortedScores(SubSeq(raw, 1, Len(raw) - 1)), raw[Len(raw)])

\* one row of the sheet; a banner row keeps the numbers its text is built from
\* (the score in the name column, the count in the reasoning column)
Row(kind, name, scoreCell, reasoningCell, feedbackCell) ==
    [kind |-> kind, name |-> name, score |-> scoreCell,
     reasoning |-> reasoningCell, feedback |-> feedbackCell]

BlankRow == Row("blank", <<>>, <<>>, <<>>, <<>>)

\* the rows of a highest or lowest group
GroupRows(kind, group) ==
    [k \in 1..Len(group) |->
        Row(kind, group[k].name, ToFixed2(group[k].score), group[k].reasoning,
            group[k].feedback)]

\* typeof s.score_percent === 'number' ? s.score_percent.toFixed(2)
\*                                     : s.score_percent || '-'
ScoreCell(s) ==
    IF s.score_percent.t = "number" THEN ToFixed2(s.score_percent.q)
    ELSE IF s.score_percent.t = "string" /\ s.score_percent.s # <<>>
    THEN s.score_percent.s
    ELSE DASH

\* a mutant of excelData: the lowest group pushed before the highest group
excelDataLowestFirst(raw) ==
    <<Row("summaryHeader", <<>>, <<>>, <<>>, <<>>),
      Row("average", <<>>, average(raw) \o <<"%">>,
          IntToStr(Len(validScores(raw))), <<>>),
      BlankRow>>
    \o (IF Len(lowestStudents(raw)) > 0
        THEN <<Row("lowestHeader", ToFixed2(minScore(raw)), <<>>,
                   IntToStr(Len(lowestStudents(raw))), <<>>)>>
             \o GroupRows("lowest", lowestStudents(raw)) \o <<BlankRow>>
        ELSE <<>>)
    \o (IF Len(highestStudents(raw)) > 0
        THEN <<Row("highestHeader", ToFixed2(maxScore(raw)), <<>>,
                   IntToStr(Len(highestStudents(raw))), <<>>)>>
             \o GroupRows("highest", highestStudents(raw)) \o <<BlankRow>>
        ELSE <<>>)
    \o <<Row("allScoresHeader", <<>>, <<>>, IntToStr(Len(raw)), <<>>), BlankRow>>
    \o [k \in 1..Len(raw) |->
          Row("all", StrOr(sortedScores(raw)[k].name, DASH),
              ScoreCell(sortedScores(raw)[k]),
              StrOr(sortedScores(raw)[k].reasoning, DASH),
              extractFeedback(sortedScores(raw)[k]))]

\* the rows pushed to excelData, in order
excelData(raw) ==
    <<Row("summaryHeader", <<>>, <<>>, <<>>, <<>>),
      Row("average", <<>>, average(raw) \o <<"%">>,
          IntToStr(Len(validScores(raw))), <<>>),
      BlankRow>>
    \o (IF Len(highestStudents(raw)) > 0
        THEN <<Row("highestHeader", ToFixed2(maxScore(raw)), <<>>,
                   IntToStr(Len(highestStudents(raw))), <<>>)>>
             \o GroupRows("highest", highestStudents(raw)) \o <<BlankRow>>
        ELSE <<>>)
    \o (IF Len(lowestStudents(raw)) > 0
        THEN <<Row("lowestHeader", ToFixed2(minScore(raw)), <<>>,
                   IntToStr(Len(lowestStudents(raw))), <<>>)>>
             \o GroupRows("lowest", lowestStudents(raw)) \o <<BlankRow>>
        ELSE <<>>)
    \o <<Row("allScoresHeader", <<>>, <<>>, IntToStr(Len(raw)), <<>>), BlankRow>>
    \o [k \in 1..Len(raw) |->
          Row("all", StrOr(sortedScores(raw)[k].name, DASH),
              ScoreCell(sortedScores(raw)[k]),
              StrOr(sortedScores(raw)[k].reasoning, DASH),
              extractFeedback(sortedScores(raw)[k]))]

SCORES_WORD == <<"s","c","o","r","e","s">>

\* a cell style: the fill colour and the font colour ("" when the font has none)
Style(fill, color) == [fill |-> fill, color |-> color]

\* the entries of `styles`
summaryHeaderStyle == Style("1F4E78", "FFFFFF")
averageRowStyle == Style("D9E1F2", "")
highestHeaderStyle == Style("70AD47", "FFFFFF")
highestRowsStyle == Style("E2EFDA", "")
lowestHeaderStyle == Style("C55A11", "FFFFFF")
lowestRowsStyle == Style("FCE4D6", "")
allScoresHeaderStyle == Style("4472C4", "FFFFFF")
regularRowEven == Style("FFFFFF", "")
regularRowOdd == Style("F2F2F2", "")
headerRowStyle == Style("366092", "FFFFFF")
feedbackColumn == Style("E7E6F7", "")
feedbackColumnHeader == Style("7C6BC8", "FFFFFF")

\* a cell json_to_sheet made and nothing styled yet
Unstyled == Style("", "")

COLUMNS == {"A", "B", "C", "D"}

\* XLSX.utils.json_to_sheet(excelData): sheet row 1 holds the column headers
\* and sheet row i + 1 the i-th row of excelData; every cell holds a string,
\* so every cell of these rows exists
json_to_sheet(data) == [r \in 1..(Len(data) + 1) |-> [c \in COLUMNS |-> Unstyled]]

\* styleRanges: the 0-based indices into excelData (currentRow) of the rows
\* of a kind, as start and end; start = -1 when the range was never set
Range(data, kind) ==
    LET at == {k \in 1..Len(data) : data[k].kind = kind}
    IN  IF at = {} THEN [start |-> -1, end |-> -2]
        ELSE [start |-> (CHOOSE k \in at : \A j \in at : k <= j) - 1,
              end |-> (CHOOSE k \in at : \A j \in at : k >= j) - 1]

\* applyStyle(startRow, endRow, style): the cell address is `${col}${row + 1}`
\* (the arguments are bound to their values once, as a call does)
applyStyle(ws, startRow, endRow, style) ==
    CHOOSE out \in
        {[r \in DOMAIN w |->
             IF (r - 1) \in a..b THEN [c \in COLUMNS |-> style] ELSE w[r]] :
           w \in {ws}, a \in {startRow}, b \in {endRow}} : TRUE

\* applyFeedbackColumnStyle(startRow, endRow, style): cell `D${row + 1}`; every
\* style has a fill, a font and an alignment, so the merge gives the style
applyFeedbackColumnStyle(ws, startRow, endRow, style) ==
    CHOOSE out \in
        {[r \in DOMAIN w |->
             IF (r - 1) \in a..b THEN [w[r] EXCEPT !["D"] = style] ELSE w[r]] :
           w \in {ws}, a \in {startRow}, b \in {endRow}} : TRUE

\* the zebra loop over allScoresRows
applyZebra(ws, startRow, endRow) ==
    CHOOSE out \in
        {[r \in DOMAIN w |->
             IF (r - 1) \in a..b
             THEN [c \in COLUMNS |->
                      IF ((r - 1) - a) % 2 = 0 THEN regularRowEven ELSE regularRowOdd]
             ELSE w[r]] :
           w \in {ws}, a \in {startRow}, b \in {endRow}} : TRUE

\* the applyStyle calls of downloadExcel, in program order, on the sheet ws0
\* with the ranges recorded while the rows were pushed
styleCalls(ws0, summaryR, averageR, highestH, highestR, lowestH, lowestR, allH, allR) ==
    LET ws1 == applyFeedbackColumnStyle(applyStyle(ws0, 0, 0, headerRowStyle),
                                        0, 0, feedbackColumnHeader)
        ws2 == applyStyle(ws1, summaryR.start, summaryR.end, summaryHeaderStyle)
        ws3 == applyStyle(ws2, averageR.start, averageR.end, averageRowStyle)
        ws4 == applyStyle(ws3, highestH.start, highestH.end, highestHeaderStyle)
        ws5 == applyFeedbackColumnStyle(
                   applyStyle(ws4, highestR.start, highestR.end, highestRowsStyle),
                   highestR.start, highestR.end, feedbackColumn)
        ws6 == applyStyle(ws5, lowestH.start, lowestH.end, lowestHeaderStyle)
        ws7 == applyFeedbackColumnStyle(
                   applyStyle(ws6, lowestR.start, lowestR.end, lowestRowsStyle),
                   lowestR.start, lowestR.end, feedbackColumn)
        ws8 == applyStyle(ws7, allH.start, allH.end, allScoresHeaderStyle)
        ws9 == applyFeedbackColumnStyle(applyZebra(ws8, allR.start, allR.end),
                                        allR.start, allR.end, feedbackColumn)
    IN  ws9

\* the styles of the worksheet made of the rows `data`
styledRows(data) ==
    styleCalls(json_to_sheet(data),
               Range(data, "summaryHeader"), Range(data, "average"),
               Range(data, "highestHeader"), Range(data, "highest"),
               Range(data, "lowestHeader"), Range(data, "lowest"),
               Range(data, "allScoresHeader"), Range(data, "all"))

\* the written workbook: the download with the styles of its sheet
Styled(saved, styles) == saved @@ [styles |-> styles]

\* XLSX.writeFile of the styled sheet made of the rows `data`
writeFile(data, base) ==
    Styled(Saved(0, data, base, FileName(safeTitle(base), Some(SCORES_WORD), TRUE, "xlsx")),
           styledRows(data))

\* downloadExcel(rawScores, title, lastTitle)
DownloadExcel ==
    /\ LET base == ResolveTitle(title, lastTitle, REPORT_LOWER)
       IN  workbook' =
               IF Len(students) = 0
               THEN NoOp
               ELSE writeFile(excelData(students), base)
    /\ UNCHANGED <<printHTML, studentPrint, sectionPrint>>
    /\ UNCHANGED <<studentText, studentHTML, resultPayload, reportHTML, sectionHTML, sectionText>>
    /\ UNCHANGED <<renderIn, pptVars, dashVars>>

\* a record of extractPPTScores as the exporters read it: it has no details
AsScore(r) ==
    [name |-> Some(r.name), score_percent |-> r.score_percent,
     reasoning |-> Some(r.reasoning), details |-> <<>>]

\* handleDownloadExcel: the scores it exports, [] when it returns before the
\* call; in the ppt mode without scores they are read off the result text
rawScores ==
    IF mode = "ppt" /\ Len(students) = 0
    THEN CHOOSE out \in {[k \in DOMAIN recs |-> AsScore(recs[k])] :
                            recs \in {extractPPTScores(result)}} : TRUE
    ELSE students

\* a mutant of HandleDownloadExcel: rawScores.sort(...) in the place of
\* [...rawScores].sort(...), so that the caller's array is reordered
HandleDownloadExcelSortingInPlace ==
    /\ \E raw \in {rawScores} :
          workbook' =
              IF Len(raw) = 0
              THEN NoOp
              ELSE writeFile(excelData(raw), ResolveTitle(title, lastTitle, REPORT_LOWER))
    /\ students' = sortedScores(students)
    /\ UNCHANGED <<summary, result, title, lastTitle, pptSection, pptFilename>>
    /\ UNCHANGED <<printHTML, studentPrint, sectionPrint>>
    /\ UNCHANGED <<studentText, studentHTML, resultPayload, reportHTML, sectionHTML, sectionText>>
    /\ UNCHANGED <<pptVars, dashVars>>

\* handleDownloadExcel() of the Dashboard, the call of downloadExcel included
HandleDownloadExcel ==
    /\ \E raw \in {rawScores} :
          workbook' =
              IF Len(raw) = 0
              THEN NoOp
              ELSE writeFile(excelData(raw), ResolveTitle(title, lastTitle, REPORT_LOWER))
    /\ UNCHANGED <<printHTML, studentPrint, sectionPrint>>
    /\ UNCHANGED <<studentText, studentHTML, resultPayload, reportHTML, sectionHTML, sectionText>>
    /\ UNCHANGED <<renderIn, pptVars, dashVars>>

-----------------------------------------------------------------------------
(* Inputs of the exporters *)

NameAB == <<"A","&","<","B",">">>
ReasonText == <<"o","k"," ","<","&",">">>
TitleText == <<" ","T","<","1",">"," ">>
LastText == <<"L","&","2">>
ResultText == <<"a","<","b",">","&","\n","c">>

DetailFull ==
    [question |-> Some(<<"q","<","1",">">>), student_answer |-> Some(<<"x","&","y">>),
     correct_answer |-> Some(<<"z">>), is_correct |-> "true",
     feedback |-> Some(<<"f","<","b",">">>)]

DetailSparse ==
    [question |-> None, student_answer |-> Some(<<>>), correct_answer |-> None,
     is_correct |-> "'true'", feedback |-> None]

ScoreValues ==
    {NumberVal(100, 1), NumberVal(200, 3), StringVal(<<"1","0","0">>),
     StringVal(DASH), StringVal(<<>>), NullVal, UndefinedVal}

BaseRecord ==
    [name |-> Some(NameAB), score_percent |-> NumberVal(200, 3),
     reasoning |-> Some(ReasonText), details |-> <<>>]

\* every score; a score of 100 without a reasoning; the name and the details
\* varied
Records ==
    {[BaseRecord EXCEPT !.score_percent = sp] : sp \in ScoreValues}
    \cup {[BaseRecord EXCEPT !.score_percent = sp, !.reasoning = None] :
             sp \in {NumberVal(100, 1), StringVal(<<"1","0","0">>)}}
    \cup {[BaseRecord EXCEPT !.name = None],
          [BaseRecord EXCEPT !.details = <<DetailFull>>],
          [BaseRecord EXCEPT !.details = <<DetailSparse, DetailFull>>]}

Collections == UNION {[1..n -> Records] : n \in 0..MaxRecords}

EssayTitle == <<"M","i","d","-","T","e","r","m",":"," ","E","s","s","a","y"," ","#","1","!">>
SpacedTitle == <<"a"," ","\t"," ","b","_","c",".","d","\n","e">>

\* a title without a letter, a digit, a dash, an underscore or a space
PunctuationTitle == <<"#","!">>

TitleValues ==
    {None, Some(<<>>), Some(<<" ">>), Some(TitleText), Some(LastText),
     Some(EssayTitle), Some(SpacedTitle), Some(PunctuationTitle)}

\* a section whose design evaluation precedes its content evaluation
DesignFirstText == Join(<<BlkHeaderB, BlkDesign, BlkContent>>, BLANK_LINE)

SectionInputs == {ExampleText, BlkContent, ResultText, DesignFirstText}

\* the argument tuples: the collections under one title; the titles over one
\* record; the raw results with and without a summary; the PPT sections
RenderInputs ==
    {<<c, None, <<>>, Some(TitleText), None, <<>>, <<>>>> : c \in Collections}
    \cup {<<<<BaseRecord>>, None, <<>>, t, l, <<>>, <<>>>> :
             t \in TitleValues, l \in TitleValues}
    \cup {<<<<>>, sm, r, Some(TitleText), None, <<>>, <<>>>> :
             sm \in {None, Some(<<"s">>)}, r \in {<<>>, ResultText}}
    \cup {<<<<>>, None, sec, Some(TitleText), Some(LastText), sec, f>> :
             sec \in SectionInputs, f \in {NameAB}}

\* the state before any export: the arguments drawn from `inputs`, nothing
\* exported yet, the PPT pipeline not running
ExportStartIn(inputs, modes) ==
    /\ \E in \in inputs :
          /\ students = in[1]
          /\ summary = in[2]
          /\ result = in[3]
          /\ title = in[4]
          /\ lastTitle = in[5]
          /\ pptSection = in[6]
          /\ pptFilename = in[7]
    /\ studentText = Idle
    /\ studentHTML = Idle
    /\ resultPayload = Idle
    /\ reportHTML = Idle
    /\ sectionHTML = Idle
    /\ sectionText = Idle
    /\ printHTML = Idle
    /\ studentPrint = Idle
    /\ sectionPrint = Idle
    /\ workbook = Idle
    /\ entry = "export"
    /\ pc = "done"
    /\ text = <<>>
    /\ parts = <<>>
    /\ idx = 1
    /\ currentFile = <<>>
    /\ currentFilename = <<>>
    /\ fileSections = <<>>
    /\ opened = <<>>
    /\ sections = <<>>
    /\ secIdx = 1
    /\ pptScores = <<>>
    /\ emitted = <<>>
    /\ mode \in modes
    /\ error = ""
    /\ isGenerating = FALSE
    /\ request = None
    /\ producedBy = None

\* the same in the mode the component starts in
ExportStart(inputs) == ExportStartIn(inputs, {"files"})

InitRender ==
    /\ \E in \in RenderInputs :
          /\ students = in[1]
          /\ summary = in[2]
          /\ result = in[3]
          /\ title = in[4]
          /\ lastTitle = in[5]
          /\ pptSection = in[6]
          /\ pptFilename = in[7]
    /\ studentText = Idle
    /\ studentHTML = Idle
    /\ resultPayload = Idle
    /\ reportHTML = Idle
    /\ sectionHTML = Idle
    /\ sectionText = Idle
    /\ printHTML = Idle
    /\ studentPrint = Idle
    /\ sectionPrint = Idle
    /\ workbook = Idle
    /\ entry = "export"
    /\ pc = "done"
    /\ text = <<>>
    /\ parts = <<>>
    /\ idx = 1
    /\ currentFile = <<>>
    /\ currentFilename = <<>>
    /\ fileSections = <<>>
    /\ opened = <<>>
    /\ sections = <<>>
    /\ secIdx = 1
    /\ pptScores = <<>>
    /\ emitted = <<>>
    /\ mode = "files"
    /\ error = ""
    /\ isGenerating = FALSE
    /\ request = None
    /\ producedBy = None

NextRender ==
    \/ \E i \in 1..MaxRecords : DownloadStudentTxt(i)
    \/ \E i \in 1..MaxRecords : DownloadStudentDoc(i)
    \/ DownloadResult
    \/ DownloadDoc
    \/ DownloadPPTSectionDoc

SpecRender == InitRender /\ [][NextRender]_vars


-----------------------------------------------------------------------------
(* Properties of the renderers *)

\* the record carries a numeric score: score_percent is a number
HasNumericScore(s) == s.score_percent.t = "number"

\* the record carries no score at all: the unscored marker, null, missing, or
\* a string that does not parse as a number
HasNoScore(s) ==
    \/ s.score_percent.t \in {"null", "undefined"}
    \/ s.score_percent.t = "string" /\ Trim(s.score_percent.s) # <<>>
          /\ ~StringToNumber(s.score_percent.s).fin

\* the value of the first item with the given label
FieldOf(items, label) ==
    LET k == FirstIn(1, Len(items), LAMBDA j : items[j].label = label, 0)
    IN  items[k].value

\* the single-record exports made so far, each with the record it was given
StudentExports ==
    {<<out.items, students[out.who]>> :
        out \in {o \in {studentText, studentHTML} : o.state = "done"}}

\* C7 (as claimed): in the plain-text and the markup rendering of a record the
\* Score field is the two-decimal rendering when the record carries a numeric
\* score, and '-' when it carries none (unscored marker, null, missing, a
\* value that does not parse as a number): never a number such as 0.00.
C7_ScoreFieldDashWhenUnscored ==
    \A ex \in StudentExports :
        /\ HasNumericScore(ex[2])
              => FieldOf(ex[1], "Score") = ToFixed2(ex[2].score_percent.q)
        /\ HasNoScore(ex[2]) => FieldOf(ex[1], "Score") = DASH

\* C8 (as claimed): in every renderer 'Need to improve' is 'None' if and only
\* if the record's numeric score is present and >= 100, and is the reasoning
\* text otherwise.
C8_NeedToImproveNoneIffFull ==
    \A ex \in StudentExports :
        FieldOf(ex[1], "Need to improve") =
            IF HasNumericScore(ex[2]) /\ AtLeast100(ex[2].score_percent.q)
            THEN NONE_TEXT
            ELSE StrOr(ex[2].reasoning, <<>>)

\* the fields of the records in an export: the labelled values and headings
RecordFields(items) ==
    SelectSeq(items, LAMBDA it : it.kind \in {"field", "heading"})

\* C9 (as claimed): the plain-text and the markup rendering of the same record
\* (buildStudentText, buildStudentHTML), and of the same collection
\* (downloadResult's payload, buildReportHTML), carry the same field values in
\* the same order.
C9_TextAndMarkupAgree ==
    /\ (studentText.state = "done" /\ studentHTML.state = "done"
           /\ studentText.who = studentHTML.who)
          => RecordFields(studentText.items) = RecordFields(studentHTML.items)
    /\ (resultPayload.state = "done" /\ reportHTML.state = "done"
           /\ Len(students) > 0)
          => RecordFields(resultPayload.items) = RecordFields(reportHTML.items)

\* every '<', '>' and '&' of an embedded value belongs to an entity or to a
\* line break the renderer wrote
IsEscaped(v) ==
    \A i \in 1..Len(v) :
        /\ v[i] = "<" => MatchAt(v, BR, i)
        /\ v[i] = ">" => MatchAt(v, BR, i - 3)
        /\ v[i] = "&" => MatchAt(v, AMP, i) \/ MatchAt(v, LT, i) \/ MatchAt(v, GT, i)

\* C10 (as claimed): every user-supplied text embedded in the markup of
\* buildReportHTML, buildStudentHTML and buildReportHTMLForSection has its
\* '&', '<' and '>' escaped.
C10_MarkupEscaped ==
    \A out \in {studentHTML, reportHTML, sectionHTML} :
        \A i \in 1..Len(out.items) : IsEscaped(out.items[i].value)

-----------------------------------------------------------------------------
(* Every exporter under the title values *)

\* the sanitizer's titles
SanitizerTitles == {Some(EssayTitle), Some(SpacedTitle), Some(PunctuationTitle)}

\* the levels of the title policy: missing, empty, white space only, usable
PolicyTitles(usable) == {None, Some(<<>>), Some(<<" ">>), Some(usable)}

\* one record under every pair of levels of the title policy and under each
\* sanitizer title, as title and as last used title; a record without a name;
\* the PPT sections under two titles and two filenames; the raw results
NameInputs ==
    {<<<<BaseRecord>>, None, <<>>, t, l, <<>>, <<>>>> :
        t \in PolicyTitles(TitleText), l \in PolicyTitles(LastText)}
    \cup {<<<<BaseRecord>>, None, <<>>, t, None, <<>>, <<>>>> : t \in SanitizerTitles}
    \cup {<<<<BaseRecord>>, None, <<>>, None, l, <<>>, <<>>>> : l \in SanitizerTitles}
    \cup {<<<<[BaseRecord EXCEPT !.name = None]>>, None, <<>>, None, None, <<>>, <<>>>>}
    \cup {<<<<>>, None, sec, t, None, sec, f>> :
             sec \in {BlkContent}, t \in {None, Some(SpacedTitle)},
             f \in {NameAB, SpacedTitle}}
    \cup {<<<<>>, sm, r, Some(TitleText), None, <<>>, <<>>>> :
             sm \in {None, Some(<<"s">>)}, r \in {<<>>, ResultText}}

InitNames == ExportStart(NameInputs)

\* 1 for an exporter that has run
Ran(o) == IF o = Idle THEN 0 ELSE 1

\* how many of the exporters have run
ExportsMade ==
    Ran(studentText) + Ran(studentHTML) + Ran(studentPrint) + Ran(resultPayload)
      + Ran(reportHTML) + Ran(printHTML) + Ran(sectionText) + Ran(sectionHTML)
      + Ran(sectionPrint) + Ran(workbook)

\* the exporters are independent of each other: a session uses at most
\* MaxExports of them
CanExport == ExportsMade < MaxExports

NextNames ==
    \/ CanExport /\ \E i \in 1..MaxRecords : DownloadStudentTxt(i)
    \/ CanExport /\ \E i \in 1..MaxRecords : DownloadStudentDoc(i)
    \/ CanExport /\ \E i \in 1..MaxRecords : DownloadStudentPdf(i)
    \/ CanExport /\ DownloadResult
    \/ CanExport /\ DownloadDoc
    \/ CanExport /\ DownloadPdf
    \/ CanExport /\ DownloadPPTSectionTxt
    \/ CanExport /\ DownloadPPTSectionDoc
    \/ CanExport /\ DownloadPPTSectionPdf
    \/ CanExport /\ DownloadExcel

SpecNames == InitNames /\ [][NextNames]_vars

-----------------------------------------------------------------------------
(* Properties of the download names *)

\* the value is present and holds a character that is no white space
Usable(o) == o.some /\ \E k \in 1..Len(o.v) : ~IsSpace(o.v[k])

\* the value without its leading and trailing white space
Stripped(v) ==
    LET keep == {k \in 1..Len(v) : ~IsSpace(v[k])}
        lo == CHOOSE k \in keep : \A j \in keep : k <= j
        hi == CHOOSE k \in keep : \A j \in keep : k >= j
    IN  IF keep = {} THEN <<>> ELSE SubSeq(v, lo, hi)

\* the title the policy resolves for the current arguments
PolicyTitle(fallback) ==
    CASE Usable(lastTitle) -> Stripped(lastTitle.v)
      [] ~Usable(lastTitle) /\ Usable(title) -> Stripped(title.v)
      [] OTHER -> fallback

\* the titles resolved by the exports made so far, each with its fallback
ResolvedTitles ==
    {<<out.items[1].value, REPORT>> :
        out \in {o \in {studentHTML, reportHTML, sectionHTML,
                         studentPrint, printHTML, sectionPrint} : o.state = "done"}}
    \cup {<<out.base, REPORT_LOWER>> :
        out \in {o \in {studentText, studentHTML, reportHTML, sectionHTML, sectionText,
                         workbook} :
                    o.state = "done"}}
    \cup {<<out.base, OUTPUT>> : out \in {o \in {resultPayload} : o.state = "done"}}

\* C12: in every renderer and exporter the resolved title is lastTitle trimmed
\* if that is non-empty, else title trimmed if that is non-empty, else the
\* literal fallback; an empty, missing or white-space-only value falls through
\* to the next level, and the resolved title has no surrounding white space.
C12_TitleResolution ==
    \A rt \in ResolvedTitles :
        /\ rt[1] = PolicyTitle(rt[2])
        /\ rt[1] # <<>>
        /\ ~IsSpace(rt[1][1]) /\ ~IsSpace(rt[1][Len(rt[1])])

\* C12 witness: a white-space-only last used title fell through to a title
\* with surrounding white space, in a renderer and in an exporter
C12_Witness ==
    /\ lastTitle = Some(<<" ">>) /\ title = Some(TitleText)
    /\ reportHTML.state = "done" /\ reportHTML.items[1].value = Stripped(TitleText)
    /\ resultPayload.state = "done" /\ resultPayload.base = Stripped(TitleText)

ESSAY_SAFE == <<"M","i","d","-","T","e","r","m","_","E","s","s","a","y","_","1">>

\* the exports that named a download
Downloads ==
    {o \in {studentText, studentHTML, resultPayload, reportHTML, sectionHTML, sectionText,
            workbook} :
        o.state = "done"}

\* the sanitizer's uses so far: the text given to it and what it made of it
Sanitized ==
    {<<out.base, out.file.safe>> : out \in Downloads}
    \cup {<<IF Truthy(students[out.who].name) THEN students[out.who].name.v
            ELSE STUDENT_UNDERSCORE \o IntToStr(out.who),
            out.file.part.v>> :
             out \in {o \in {studentText, studentHTML} : o.state = "done"}}
    \cup {<<pptFilename, out.file.part.v>> :
             out \in {o \in {sectionHTML, sectionText} : o.state = "done"}}

\* how many positions of s hold a character satisfying P
CountOf(s, P(_)) == Cardinality({k \in 1..Len(s) : P(s[k])})

\* the runs of spaces left once the characters that are no letter, digit,
\* dash, underscore or space are removed
SpaceRuns(raw) ==
    LET kept == SelectSeq(raw, LAMBDA c : c \in LETTERS \/ IsDigit(c)
                                            \/ c \in {"-", "_", " "})
    IN  Cardinality({k \in 1..Len(kept) :
                        kept[k] = " " /\ (k = 1 \/ kept[k - 1] # " ")})

\* C16: the filename sanitizer removes every character that is not a letter,
\* digit, dash, underscore or space and then replaces each run of white space
\* by a single underscore: the result contains only letters, digits, dashes
\* and underscores, sanitizing it again changes nothing, and the title
\* 'Mid-Term: Essay #1!' becomes 'Mid-Term_Essay_1'.
C16_SanitizedName ==
    \A p \in Sanitized :
        /\ \A k \in 1..Len(p[2]) :
               p[2][k] \in LETTERS \/ IsDigit(p[2][k]) \/ p[2][k] \in {"-", "_"}
        /\ SelectSeq(p[2], LAMBDA c : c # "_")
              = SelectSeq(p[1], LAMBDA c : c \in LETTERS \/ IsDigit(c) \/ c = "-")
        /\ CountOf(p[2], LAMBDA c : c = "_")
              = CountOf(p[1], LAMBDA c : c = "_") + SpaceRuns(p[1])
        /\ safeTitle(p[2]) = p[2]
        /\ p[1] = EssayTitle => p[2] = ESSAY_SAFE

\* C16 witness: the example title was sanitized for a record's document and
\* for the spreadsheet, next to a record name that loses characters
C16_Witness ==
    /\ workbook.state = "done" /\ studentHTML.state = "done"
    /\ workbook.file.safe = ESSAY_SAFE
    /\ <<EssayTitle, ESSAY_SAFE>> \in Sanitized
    /\ \E p \in Sanitized : p[1] = NameAB /\ p[2] # p[1]

-----------------------------------------------------------------------------
(* The document exports and the print exports side by side *)

\* a plain record; one without a name, with a null score and with details
PrintRecords ==
    {BaseRecord,
     [BaseRecord EXCEPT !.name = None, !.score_percent = NullVal,
                        !.details = <<DetailSparse, DetailFull>>]}

PrintCollections == UNION {[1..n -> PrintRecords] : n \in 0..MaxRecords}

\* the collections under a last used title and one without it; the raw
\* results; the PPT sections
PrintInputs ==
    {<<c, None, <<>>, Some(TitleText), Some(LastText), <<>>, <<>>>> :
        c \in PrintCollections}
    \cup {<<<<BaseRecord>>, None, <<>>, Some(TitleText), None, <<>>, <<>>>>}
    \cup {<<<<>>, None, r, t, Some(LastText), <<>>, <<>>>> :
             r \in {<<>>, ResultText}, t \in {None, Some(TitleText)}}
    \cup {<<<<>>, None, sec, Some(TitleText), l, sec, f>> :
             sec \in SectionInputs, l \in {None, Some(LastText)}, f \in {NameAB}}

InitPrint == ExportStart(PrintInputs)

NextPrint ==
    \/ DownloadDoc
    \/ DownloadPdf
    \/ \E i \in 1..MaxRecords : DownloadStudentDoc(i)
    \/ \E i \in 1..MaxRecords : DownloadStudentPdf(i)
    \/ DownloadPPTSectionDoc
    \/ DownloadPPTSectionPdf

SpecPrint == InitPrint /\ [][NextPrint]_vars

\* C11: for the same inputs the document export and the print export emit the
\* same markup: downloadDoc and downloadPdf return without output on the same
\* inputs and otherwise carry the same content, and so do the per-student pair
\* (for the same record) and the per-section pair, whenever the print window
\* opened.
C11_PrintSameAsDocument ==
    /\ (reportHTML.state # "idle" /\ printHTML.state # "idle")
          => /\ reportHTML.state = "noop" <=> printHTML.state = "noop"
             /\ printHTML.state = "done" => printHTML.items = reportHTML.items
    /\ (studentHTML.state = "done" /\ studentPrint.state = "done"
           /\ studentHTML.who = studentPrint.who)
          => studentPrint.items = studentHTML.items
    /\ (sectionHTML.state = "done" /\ sectionPrint.state = "done")
          => sectionPrint.items = sectionHTML.items

\* C11 witness: a collection under a last used title went through both the
\* document and the print export, and one of its records through both
\* per-student exports
C11_Witness ==
    /\ Len(students) > 0 /\ Truthy(lastTitle)
    /\ reportHTML.state = "done" /\ printHTML.state = "done"
    /\ studentHTML.state = "done" /\ studentPrint.state = "done"
    /\ studentHTML.who = studentPrint.who

-----------------------------------------------------------------------------
(* downloadExcel over score collections *)

Rec100 == [BaseRecord EXCEPT !.score_percent = NumberVal(100, 1)]
Rec40 == [BaseRecord EXCEPT !.score_percent = NumberVal(40, 1)]
Rec92 == [BaseRecord EXCEPT !.score_percent = NumberVal(92, 1)]
\* 92.0078125: within 0.01 above 92 and a value a double holds exactly
Rec92Plus == [BaseRecord EXCEPT !.score_percent = NumberVal(11777, 128)]
Rec0 == [BaseRecord EXCEPT !.score_percent = NumberVal(0, 1)]
RecUnscored == [BaseRecord EXCEPT !.score_percent = StringVal(DASH)]
RecNull ==
    [BaseRecord EXCEPT !.name = None, !.score_percent = NullVal, !.reasoning = None,
                       !.details = <<DetailSparse, DetailFull>>]

ExcelRecords == {Rec100, Rec40, Rec92, Rec92Plus, Rec0, RecUnscored, RecNull}

ExcelInputs ==
    {<<c, None, <<>>, Some(TitleText), None, <<>>, <<>>>> :
        c \in UNION {[1..n -> ExcelRecords] : n \in 0..MaxRecords}}

InitExcel == ExportStart(ExcelInputs)

NextExcel == DownloadExcel

SpecExcel == InitExcel /\ [][NextExcel]_vars

\* the sheet is written; its rows of one kind, in order
SheetWritten == workbook.state = "done"
RowsOf(kind) == SelectSeq(workbook.items, LAMBDA r : r.kind = kind)

\* the records of the collection that carry a numeric score, in order
Scored(raw) == SelectSeq(raw, LAMBDA s : s.score_percent.t = "number")

\* the scores are multiples of 1/128: their sum in 128ths
RECURSIVE SumIn128ths(_)
SumIn128ths(raw) ==
    IF raw = <<>> THEN 0
    ELSE LET q == Head(raw).score_percent.q
         IN  q.n * (128 \div q.d) + SumIn128ths(Tail(raw))

\* the text of the average cell for a collection
ExpectedAverage(raw) ==
    IF Scored(raw) = <<>> THEN NOT_AVAILABLE
    ELSE ToFixed2(Frac(SumIn128ths(Scored(raw)), 128 * Len(Scored(raw))))

\* names and scores of the rows of a group
NamesAndScores(rows) == [k \in 1..Len(rows) |-> <<rows[k].name, rows[k].score>>]

\* the rows of the summary: the average and the two groups
SummaryRows(items) ==
    SelectSeq(items, LAMBDA r : r.kind \in {"average", "highest", "lowest"})

\* C13: the average of downloadExcel is the arithmetic mean, to two decimals,
\* of exactly the records with a numeric score, or 'N/A' when there is none;
\* the records without a numeric score change neither the average nor the
\* highest and lowest groups; for records scoring 100 and 40 the average is
\* 70.00, the highest group the 100 record and the lowest the 40 record.
C13_AverageOfScored ==
    SheetWritten =>
        /\ RowsOf("average")[1].score = ExpectedAverage(students) \o <<"%">>
        /\ RowsOf("average")[1].reasoning = IntToStr(Len(Scored(students)))
        /\ Scored(students) # <<>>
              => SummaryRows(workbook.items) = SummaryRows(excelData(Scored(students)))
        /\ students = <<Rec100, Rec40>>
              => /\ RowsOf("average")[1].score = <<"7","0",".","0","0","%">>
                 /\ NamesAndScores(RowsOf("highest"))
                       = <<<<NameAB, <<"1","0","0",".","0","0">>>>>>
                 /\ NamesAndScores(RowsOf("lowest"))
                       = <<<<NameAB, <<"4","0",".","0","0">>>>>>

\* C13 witness: the sheet of the records scoring 100 and 40, and of a scored
\* record next to one without a score, is written
C13_Witness ==
    /\ SheetWritten
    /\ students = <<Rec100, Rec40>>
    /\ RowsOf("average")[1].score = <<"7","0",".","0","0","%">>

\* a numeric score in 128ths
In128ths(s) == s.score_percent.q.n * (128 \div s.score_percent.q.d)

\* the scored records whose score is within 0.01 of that of record top, as
\* the name and the score cell of each, in input order
WithinTolerance(raw, top) ==
    LET near == SelectSeq(Scored(raw),
                    LAMBDA s : /\ (In128ths(s) - In128ths(top)) * 100 < 128
                               /\ (In128ths(top) - In128ths(s)) * 100 < 128)
    IN  [k \in 1..Len(near) |->
            <<StrOr(near[k].name, DASH), ToFixed2(near[k].score_percent.q)>>]

\* the scored records no other scored record exceeds, and those none is below
Maximal(raw) ==
    {k \in 1..Len(Scored(raw)) :
        \A j \in 1..Len(Scored(raw)) : In128ths(Scored(raw)[j]) <= In128ths(Scored(raw)[k])}
Minimal(raw) ==
    {k \in 1..Len(Scored(raw)) :
        \A j \in 1..Len(Scored(raw)) : In128ths(Scored(raw)[j]) >= In128ths(Scored(raw)[k])}

\* C14: the highest group of downloadExcel is exactly the scored records whose
\* score is within 0.01 of the maximum, and the lowest group exactly those
\* within 0.01 of the minimum: every tied record is listed and none outside
\* the tolerance is.
C14_GroupsWithinTolerance ==
    SheetWritten =>
        /\ \A k \in Maximal(students) :
              NamesAndScores(RowsOf("highest"))
                  = WithinTolerance(students, Scored(students)[k])
        /\ \A k \in Minimal(students) :
              NamesAndScores(RowsOf("lowest"))
                  = WithinTolerance(students, Scored(students)[k])
        /\ Scored(students) = <<>>
              => RowsOf("highest") = <<>> /\ RowsOf("lowest") = <<>>

\* C14 witness: a sheet whose highest group holds both the record at the
\* maximum and the record 0.0078125 under it
C14_Witness ==
    /\ SheetWritten
    /\ students = <<Rec92, Rec92Plus>>
    /\ NamesAndScores(RowsOf("highest"))
          = <<<<NameAB, <<"9","2",".","0","0">>>>, <<NameAB, <<"9","2",".","0","1">>>>>>

\* the cells of the complete-list row of a record
ListedAs(s) ==
    [name |-> StrOr(s.name, DASH),
     score |-> IF s.score_percent.t = "number" THEN ToFixed2(s.score_percent.q)
               ELSE IF s.score_percent.t = "string" /\ s.score_percent.s # <<>>
               THEN s.score_percent.s ELSE DASH,
     reasoning |-> StrOr(s.reasoning, DASH)]

CellsOf(r) == [name |-> r.name, score |-> r.score, reasoning |-> r.reasoning]

\* the orders in which the records of a collection can be listed
Orders(n) == {f \in [1..n -> 1..n] : \A a, b \in 1..n : f[a] = f[b] => a = b}

\* an order that puts the scored records first, by descending score
Ranked(raw, f) ==
    \A a, b \in 1..Len(raw) :
        a < b =>
            /\ raw[f[b]].score_percent.t = "number"
                  => raw[f[a]].score_percent.t = "number"
            /\ raw[f[a]].score_percent.t = "number" /\ raw[f[b]].score_percent.t = "number"
                  => In128ths(raw[f[a]]) >= In128ths(raw[f[b]])

\* C15: the complete-list rows of the spreadsheet contain every input record
\* exactly once, ordered by numeric score descending, with every record that
\* has no numeric score after all records that have one.
C15_CompleteList ==
    SheetWritten =>
        /\ Len(RowsOf("all")) = Len(students)
        /\ \E f \in Orders(Len(students)) :
              /\ Ranked(students, f)
              /\ \A k \in 1..Len(students) :
                    CellsOf(RowsOf("all")[k]) = ListedAs(students[f[k]])

\* C15 witness: a sheet of an unscored record followed by a record scoring 0,
\* listed as the scored record and then the unscored one
C15_Witness ==
    /\ SheetWritten
    /\ students = <<RecUnscored, Rec0>>
    /\ RowsOf("all")[1].score = <<"0",".","0","0">>
    /\ RowsOf("all")[2].score = DASH

-----------------------------------------------------------------------------
(* The exporters without data *)

\* an export that built nothing and had no effect
Untouched(o) == o.state \in {"idle", "noop"}

\* C17: with an empty score collection and an empty raw result text,
\* downloadResult, downloadDoc, downloadPdf and downloadExcel build no payload
\* and have no effect, whatever the other arguments are.
C17_NoDataNoOp ==
    (students = <<>> /\ result = <<>>) =>
        /\ Untouched(resultPayload)
        /\ Untouched(reportHTML)
        /\ Untouched(printHTML)
        /\ Untouched(workbook)

\* without data the document, print and spreadsheet exports have no effect
NoDataOthersNoOp ==
    (students = <<>> /\ result = <<>>) =>
        Untouched(reportHTML) /\ Untouched(printHTML) /\ Untouched(workbook)

-----------------------------------------------------------------------------
(* The walk of splitPPTFileSections over the blocks *)

\* position p of block b starts a line
AtLineStart(b, p) == p = 1 \/ b[p - 1] = "\n"

\* a line 'File: <name>' of block b starts at p
FileLineAt(b, p) ==
    /\ AtLineStart(b, p)
    /\ MatchAt(b, FILE_COLON, p)
    /\ p + Len(FILE_COLON) <= Len(b)
    /\ b[p + Len(FILE_COLON)] \in {" ", "\t"}
    /\ Trim(SubSeq(b, p + Len(FILE_COLON), LineEnd(b, p) - 1)) # <<>>

\* a line of block b that starts with 'Total Slides:' starts at q
SlidesLineAt(b, q) == q > 1 /\ b[q - 1] = "\n" /\ MatchAt(b, TOTAL_SLIDES, q)

\* an evaluation marker of block b starts at r
EvalMarkerAt(b, r) ==
    MatchAt(b, CONTENT_EVALUATION, r) \/ MatchAt(b, VISUAL_DESIGN_EVALUATION, r)

\* block b is a new-file header: a File: line, a Total Slides: line after
\* it, and no evaluation marker before either
NewFileHeader(b) ==
    \E p, q \in 1..Len(b) :
        /\ p < q
        /\ FileLineAt(b, p)
        /\ SlidesLineAt(b, q)
        /\ \A r \in 1..q : ~EvalMarkerAt(b, r)

\* the name on the first File: line of block b
NameOnFileLine(b) ==
    LET p == FirstIn(1, Len(b), LAMBDA k : FileLineAt(b, k), 0)
    IN  Trim(SubSeq(b, p + Len(FILE_COLON), LineEnd(b, p) - 1))

\* a step of the walk over a block that is not the first of the text
WalksLaterBlock ==
    /\ pc = "loop"
    /\ idx <= Len(parts)
    /\ idx' = idx + 1
    /\ currentFile # <<>>

\* C18 (as claimed): while splitPPTFileSections walks the blocks, a block
\* after the first non-blank one starts a new section if and only if it is a
\* new-file header whose filename differs from that of the section being
\* accumulated; every other block, a block with 'File:' but no 'Total Slides:'
\* and a repeated header included, is appended to the current section after a
\* blank line and no section is flushed.  The code decides with the first
\* index of each marker and with a white space run that crosses the line end:
\* a block whose first 'Total Slides:' precedes its File: line is appended
\* though a Total Slides: line follows the File: line, and a block 'File:'
\* with no name on the line opens a section named by its next line.
C18_NewSectionOnlyAtNewHeader ==
    [][WalksLaterBlock =>
          LET b == Trim(parts[idx])
          IN  IF NewFileHeader(b) /\ NameOnFileLine(b) # currentFilename
              THEN /\ fileSections' = Append(fileSections, Trim(currentFile))
                   /\ currentFile' = b
                   /\ currentFilename' = NameOnFileLine(b)
              ELSE /\ fileSections' = fileSections
                   /\ currentFile' = currentFile \o <<"\n", "\n">> \o b
                   /\ currentFilename' = currentFilename]_vars

-----------------------------------------------------------------------------
(* The reasoning of the records of extractPPTScores *)

\* the pieces of section s, from position p on, that lines beginning with
\* 'Feedback:' give: the text after the prefix with its continuation lines
RECURSIVE FeedbackLinesFrom(_, _)
FeedbackLinesFrom(s, p) ==
    LET q == FirstIn(p, Len(s),
                 LAMBDA k : AtLineStart(s, k) /\ MatchAt(s, FEEDBACK_COLON, k), 0)
    IN  IF q = 0 THEN <<>>
        ELSE LET j == SkipSpaces(s, q + Len(FEEDBACK_COLON))
             IN  IF j > Len(s) THEN <<>>
                 ELSE LET e == FeedbackEnd(s, LineEnd(s, j))
                      IN  <<SubSeq(s, j, e - 1)>> \o FeedbackLinesFrom(s, e)

\* the reasoning a section's lines beginning with 'Feedback:' give
ReasoningOfFeedbackLines(s) ==
    IF FeedbackLinesFrom(s, 1) = <<>> THEN EVALUATION_COMPLETED
    ELSE Join(FeedbackLinesFrom(s, 1), SEMICOLON_SPACE)

\* C19: the reasoning of a record of extractPPTScores is built only from the
\* lines that begin with 'Feedback:' (each with its continuation lines), the
\* prefix stripped and the pieces joined by '; ' in source order; without
\* such a line it is 'Evaluation completed', so it is never empty.
C19_ReasoningFromFeedbackLines ==
    ExtractReturned =>
        \A k \in 1..Len(emitted) :
            emitted[k] # <<>> =>
                /\ emitted[k][1].reasoning = ReasoningOfFeedbackLines(sections[k])
                /\ emitted[k][1].reasoning # <<>>

\* the reasoning of an emitted record is never the empty string
ReasoningNeverEmpty ==
    \A k \in 1..Len(emitted) : emitted[k] # <<>> => emitted[k][1].reasoning # <<>>

-----------------------------------------------------------------------------
(* The renderers over the question details of one record *)

DetailFalse == [DetailFull EXCEPT !.is_correct = "false"]
DetailAbsent ==
    [question |-> Some(<<"q">>), student_answer |-> None, correct_answer |-> Some(<<>>),
     is_correct |-> "undefined", feedback |-> Some(<<>>)]

Details == {DetailFull, DetailSparse, DetailFalse, DetailAbsent}

DetailRecords ==
    {[BaseRecord EXCEPT !.details = ds] :
        ds \in UNION {[1..n -> Details] : n \in 0..MaxDetails}}

DetailInputs ==
    {<<<<r>>, None, <<>>, Some(TitleText), None, <<>>, <<>>>> : r \in DetailRecords}

InitDetails == ExportStart(DetailInputs)

NextDetails ==
    \/ \E i \in 1..MaxRecords : DownloadStudentTxt(i)
    \/ \E i \in 1..MaxRecords : DownloadStudentDoc(i)
    \/ DownloadResult
    \/ DownloadDoc

SpecDetails == InitDetails /\ [][NextDetails]_vars

\* the renderings of the record made so far: plain text and markup, of the
\* record alone and of the collection that holds it
Renderings ==
    {o.items : o \in {x \in {studentText, studentHTML, resultPayload, reportHTML} :
                          x.state = "done"}}

\* a value as it is shown: '-' when it is missing or empty
Shown(v) == IF v.some /\ v.v # <<>> THEN v.v ELSE DASH

\* the heading and the per-question items of a rendering
DetailBlock(items) == SelectSeq(items, LAMBDA it : it.kind = "heading" \/ it.n > 0)

\* the items of a rendering that belong to question i, as label and value
QuestionItems(items, i) ==
    LET its == SelectSeq(items, LAMBDA it : it.kind = "field" /\ it.n = i)
    IN  [k \in 1..Len(its) |-> <<its[k].label, its[k].value>>]

\* what the rendering shows for detail d
QuestionAsClaimed(d) ==
    <<<<"Q", Shown(d.question)>>,
      <<"Answer", Shown(d.student_answer)>>,
      <<"Correct answer", Shown(d.correct_answer)>>,
      <<"Evaluation", IF d.is_correct = "true" THEN CORRECT ELSE INCORRECT>>>>
    \o (IF d.feedback.some /\ d.feedback.v # <<>>
        THEN <<<<"Feedback", d.feedback.v>>>> ELSE <<>>)

\* C20: for a record with at least one question detail the plain-text and the
\* markup renderer emit the 'Per-question evaluation' header and then one
\* group per detail in the original order, labelled Q1, Q2, ... by position,
\* a missing question, answer or correct answer shown as '-', the evaluation
\* 'Correct' if and only if is_correct is strictly true, and a Feedback line
\* if and only if the feedback is non-empty; for a record without details no
\* detail block is emitted.
C20_DetailBlock ==
    \A items \in Renderings :
        LET ds == students[1].details
            block == DetailBlock(items)
        IN  IF ds = <<>> THEN block = <<>>
            ELSE /\ block[1].kind = "heading"
                 /\ block[1].label = "Per-question evaluation"
                 /\ \A k \in 2..Len(block) : block[k].kind = "field"
                 /\ \A k \in 2..Len(block) : block[k].n \in 1..Len(ds)
                 /\ \A k \in 2..(Len(block) - 1) : block[k].n <= block[k + 1].n
                 /\ \A i \in 1..Len(ds) :
                       QuestionItems(items, i) = QuestionAsClaimed(ds[i])

\* C20 witness: the text and the markup of a record with a sparse and a full
\* detail are rendered: question 1 is shown with '-' and 'Incorrect' and no
\* Feedback line, question 2 with 'Correct' and its feedback
C20_Witness ==
    /\ studentText.state = "done"
    /\ studentHTML.state = "done"
    /\ students[1].details = <<DetailSparse, DetailFull>>
    /\ QuestionItems(studentText.items, 1)
          = <<<<"Q", DASH>>, <<"Answer", DASH>>, <<"Correct answer", DASH>>,
              <<"Evaluation", INCORRECT>>>>
    /\ Len(QuestionItems(studentHTML.items, 2)) = 5

-----------------------------------------------------------------------------
(* The raw-text fallback of the markup report *)

\* the raw result text as a report embeds it
RawValues(items) ==
    {items[k].value : k \in {j \in 1..Len(items) : items[j].kind = "raw"}}

\* how many times pat occurs in s
Occurrences(s, pat) == Cardinality({k \in 1..Len(s) : MatchAt(s, pat, k)})

\* C21: without structured score records the markup report renders the raw
\* result text with every line break of that text converted to explicit
\* line-break markup.
C21_FallbackLineBreaks ==
    (reportHTML.state = "done" /\ students = <<>>) =>
        /\ RawValues(reportHTML.items) # {}
        /\ \A v \in RawValues(reportHTML.items) :
              /\ Occurrences(v, <<"\n">>) = 0
              /\ Occurrences(v, BR) = Occurrences(result, <<"\n">>)

-----------------------------------------------------------------------------
(* The two sub-blocks of a rendered PPT section *)

\* the section has both evaluation markers: it is rendered in split mode
SplitMode(sec) ==
    Includes(sec, CONTENT_EVALUATION) /\ Includes(sec, VISUAL_DESIGN_EVALUATION)

\* the text that belongs to the marker found first at a, the other marker
\* being found first at b: from a up to the other marker when that one comes
\* later, up to the end of the section otherwise
BelongingTo(sec, a, b) == SubSeq(sec, a, IF b > a THEN b - 1 ELSE Len(sec))

\* the sub-blocks of the rendered section, in order
SubBlocks(items) == SelectSeq(items, LAMBDA it : it.kind = "section")

\* C22: for a section with both markers buildReportHTMLForSection renders two
\* sub-blocks bounded by the first occurrence of each marker, the content
\* sub-block holding the text of the content marker and the design sub-block
\* that of the design marker, no text appearing in both, whichever marker
\* comes first; a section lacking either marker is rendered as one block.
C22_SubBlocksDisjoint ==
    sectionHTML.state = "done" =>
        LET sec == pptSection
            blocks == SubBlocks(sectionHTML.items)
            a == FindFrom(sec, CONTENT_EVALUATION, 1)
            b == FindFrom(sec, VISUAL_DESIGN_EVALUATION, 1)
        IN  IF SplitMode(sec)
            THEN /\ Len(blocks) = 2
                 /\ blocks[1].label = "CONTENT EVALUATION"
                 /\ blocks[1].value = EscapeSection(Trim(BelongingTo(sec, a, b)))
                 /\ blocks[2].label = "VISUAL DESIGN EVALUATION"
                 /\ blocks[2].value = EscapeSection(Trim(BelongingTo(sec, b, a)))
            ELSE /\ Len(blocks) = 1
                 /\ blocks[1].value = EscapeSection(sec)

\* the lines of a section that are not empty
LinesOf(sec) ==
    {SubSeq(sec, k, LineEnd(sec, k) - 1) :
        k \in {j \in 1..Len(sec) : AtLineStart(sec, j) /\ sec[j] # "\n"}}

\* C27: in split mode buildReportHTMLForSection loses none of the section's
\* text: every line of the section, the 'File:' and 'Total Slides:' lines
\* before the first evaluation marker included, appears in the rendered body.
C27_NoLineLost ==
    (sectionHTML.state = "done" /\ SplitMode(pptSection)) =>
        \A line \in LinesOf(pptSection) :
            \E k \in 1..Len(SubBlocks(sectionHTML.items)) :
                Includes(SubBlocks(sectionHTML.items)[k].value, EscapeSection(line))

-----------------------------------------------------------------------------
(* The layout of the sheet *)

\* m rows of one kind
Repeated(kind, m) == [k \in 1..m |-> kind]

\* the kinds of the rows of the sheet, in order
KindsOf(items) == [k \in 1..Len(items) |-> items[k].kind]

\* C23 (as claimed): the rows of downloadExcel are, in order: summary banner, average row,
\* blank, then (when a record is scored) highest banner, its rows, blank,
\* lowest banner, its rows, blank, then the complete-list banner immediately
\* followed by the ranked rows; no other row is interleaved.
C23_RowLayout ==
    SheetWritten =>
        KindsOf(workbook.items) =
            <<"summaryHeader", "average", "blank">>
            \o (IF Scored(students) # <<>>
                THEN <<"highestHeader">> \o Repeated("highest", Len(RowsOf("highest")))
                     \o <<"blank", "lowestHeader">>
                     \o Repeated("lowest", Len(RowsOf("lowest"))) \o <<"blank">>
                ELSE <<>>)
            \o <<"allScoresHeader">> \o Repeated("all", Len(students))

\* C23 (amended): the rows are as claimed but for one blank row between the
\* complete-list banner and the ranked rows: summary banner, average row,
\* blank, then (when a record is scored) highest banner, its rows, blank,
\* lowest banner, its rows, blank, then the complete-list banner, a blank row
\* and the ranked rows; no other row is interleaved.
C23_RowLayoutWithBlank ==
    SheetWritten =>
        KindsOf(workbook.items) =
            <<"summaryHeader", "average", "blank">>
            \o (IF Scored(students) # <<>>
                THEN <<"highestHeader">> \o Repeated("highest", Len(RowsOf("highest")))
                     \o <<"blank", "lowestHeader">>
                     \o Repeated("lowest", Len(RowsOf("lowest"))) \o <<"blank">>
                ELSE <<>>)
            \o <<"allScoresHeader", "blank">> \o Repeated("all", Len(students))

\* C23 witness: the sheet of a record scoring 100 and one scoring 40 holds
\* every segment, the blank row after the complete-list banner included
C23_Witness ==
    /\ SheetWritten
    /\ students = <<Rec100, Rec40>>
    /\ KindsOf(workbook.items) =
          <<"summaryHeader", "average", "blank", "highestHeader", "highest", "blank",
            "lowestHeader", "lowest", "blank", "allScoresHeader", "blank", "all", "all">>

-----------------------------------------------------------------------------
(* The styles of the sheet *)

\* the documented fill and font colour of the segment a row belongs to
SegmentStyle(kind, nth) ==
    CASE kind = "columnHeader" -> [fill |-> "366092", color |-> "FFFFFF"]
      [] kind = "summaryHeader" -> [fill |-> "1F4E78", color |-> "FFFFFF"]
      [] kind = "average" -> [fill |-> "D9E1F2", color |-> ""]
      [] kind = "highestHeader" -> [fill |-> "70AD47", color |-> "FFFFFF"]
      [] kind = "highest" -> [fill |-> "E2EFDA", color |-> ""]
      [] kind = "lowestHeader" -> [fill |-> "C55A11", color |-> "FFFFFF"]
      [] kind = "lowest" -> [fill |-> "FCE4D6", color |-> ""]
      [] kind = "allScoresHeader" -> [fill |-> "4472C4", color |-> "FFFFFF"]
      [] kind = "all" -> [fill |-> IF nth % 2 = 1 THEN "FFFFFF" ELSE "F2F2F2",
                          color |-> ""]

\* the kind of the segment sheet row r holds: row 1 holds the column headers,
\* row i + 1 the i-th emitted row
KindOnSheet(r) == IF r = 1 THEN "columnHeader" ELSE workbook.items[r - 1].kind

\* the position of sheet row r among the ranked rows
NthRanked(r) == Cardinality({q \in 2..r : workbook.items[q - 1].kind = "all"})

\* C24: in the finished worksheet every styled segment carries its own
\* documented style on exactly the sheet rows that hold it: the column-header
\* row 366092/white, the summary banner 1F4E78, the average row D9E1F2, the
\* highest banner 70AD47 and its rows E2EFDA, the lowest banner C55A11 and its
\* rows FCE4D6, the complete-list banner 4472C4 and the ranked rows
\* alternately FFFFFF and F2F2F2; no style lands on a row of another segment.
\* (Stated for the columns A to C, which no column style touches.)
C24_SegmentStyles ==
    SheetWritten =>
        \A r \in DOMAIN workbook.styles :
            KindOnSheet(r) # "blank" =>
                \A c \in {"A", "B", "C"} :
                    workbook.styles[r][c] = SegmentStyle(KindOnSheet(r), NthRanked(r))

-----------------------------------------------------------------------------
(* The exports of one collection, in any order *)

\* the collections of a top, a low and an unscored record; a PPT result on
\* display without scores, under a last used title
SnapshotInputs ==
    {<<c, None, <<>>, Some(TitleText), None, <<>>, <<>>>> :
        c \in UNION {[1..n -> {Rec100, Rec40, RecUnscored}] : n \in 0..MaxRecords}}
    \cup {<<<<>>, None, r, Some(<<>>), Some(LastText), <<>>, <<>>>> :
             r \in {ExampleText, BlkContent, ResultText}}

InitSnapshot == ExportStartIn(SnapshotInputs, {"files", "ppt"})

NextSnapshot ==
    \/ HandleDownloadExcel
    \/ DownloadResult
    \/ DownloadDoc

SpecSnapshot == InitSnapshot /\ [][NextSnapshot]_vars

\* C25: downloadExcel leaves the caller's score collection unchanged (same
\* records, same order, same field values), so every export of a sequence of
\* exports over the collection sees the same snapshot.
C25_CollectionUnchanged == [][students' = students]_vars

\* C25 witness: the sheet of a collection given in ascending order is written
\* with its rows ranked, the text export was made as well, and the collection
\* is still in the order given
C25_Witness ==
    /\ SheetWritten
    /\ resultPayload.state = "done"
    /\ students = <<Rec40, Rec100>>
    /\ RowsOf("all")[1].score = <<"1","0","0",".","0","0">>
    /\ FieldOf(resultPayload.items, "Score") = <<"4","0",".","0","0">>

-----------------------------------------------------------------------------
(* The plain-text export of a raw result *)

\* C26: with an empty score collection and a non-empty raw result text
\* downloadResult emits the raw result text as its payload, whether or not a
\* summary is present.
C26_RawTextPayload ==
    (students = <<>> /\ result # <<>> /\ resultPayload.state # "idle") =>
        /\ resultPayload.state = "done"
        /\ [k \in 1..Len(resultPayload.items) |-> resultPayload.items[k].value]
              = <<result>>

\* without a summary the payload is the raw result text
RawTextPayloadWithoutSummary == ~Truthy(summary) => C26_RawTextPayload

-----------------------------------------------------------------------------
(* The title fragment of the download names *)

\* C28: the title fragment of every export filename is non-empty: for every
\* title and lastTitle, those made only of punctuation or other disallowed
\* characters included, the sanitized title that starts the filename has at
\* least one character.
C28_TitleFragmentNonEmpty ==
    \A out \in Downloads : Len(out.file.safe) > 0

\* the title the filename is made from is never empty before it is sanitized
BaseTitleNonEmpty == \A out \in Downloads : Len(out.base) > 0

-----------------------------------------------------------------------------
(* Splitting the output of the splitter again *)

\* splitPPTFileSections has returned
SplitReturnedSections == pc \in {"sections", "done"} /\ entry # "export"

\* the sections returned are those the function form computes
SectionsAsFunction == SplitReturnedSections => sections = splitPPTFileSections(text)

\* C29: splitPPTFileSections is idempotent on its own output: the returned
\* sections joined with a blank line and split again give the same sequence
\* of sections.
C29_SplitIdempotent ==
    SplitReturnedSections =>
        splitPPTFileSections(Join(sections, BLANK_LINE)) = sections

\* C29 witness: a text of three blocks, one of them with surrounding blanks,
\* was split into two sections, the first made of two blocks
C29_Witness ==
    /\ SplitReturnedSections
    /\ text = Join(<<BlkHeaderB, BlkNote, BlkHeaderQuiz>>, BLANK_LINE)
    /\ sections = <<BlkHeaderB \o BLANK_LINE \o Trim(BlkNote), BlkHeaderQuiz>>
    /\ text # Join(sections, BLANK_LINE)

\* ---------------------------------------------------------------------------
\* The generate flow of the Dashboard
\* ---------------------------------------------------------------------------

Modes == {"files", "ppt", "github"}

\* what the user may have typed in the title field
FieldTitles == {<<>>, <<" ">>, TitleText, LastText}

\* the state of the component after construction
DashboardStart == <<<<>>, Some(<<>>), <<>>, Some(<<>>), Some(<<>>), <<>>, <<>>>>

\* the validation at the head of handleGenerate: the message of the first
\* check that fails, '' when all pass; `described` and `attached` say whether
\* the description is non-blank and whether the files (the repository URL in
\* github mode) are acceptable
validationError(m, t, described, attached) ==
    IF m \in {"files", "ppt"}
    THEN IF Trim(t) = <<>> THEN "Please enter a title"
         ELSE IF ~described THEN "Please enter a description"
         ELSE IF ~attached
              THEN IF m = "files" THEN "Please upload at least one file"
                   ELSE "Please upload at least one PPT file"
         ELSE ""
    ELSE IF ~attached THEN "Please enter a valid public GitHub repository URL"
         ELSE IF ~described
              THEN "Please enter rules/description for how the GitHub repo should be evaluated"
         ELSE ""

\* the responses of the /generate endpoint: summary absent or present, scores
\* absent or an array
GenerateResponses ==
    [success : BOOLEAN,
     result : {<<>>, ResultText},
     summary : {None, Some(<<"s">>)},
     scores : {None, Some(<<>>), Some(<<BaseRecord>>)}]

\* the text shown for a GitHub grading: the formatted grading, or the grading
\* as JSON when no field of it is formatted
GithubResults == {<<"*","*","O","v","e","r","a","l","l"," ","C","o","m","m","e","n","t",
                    ":","*","*","\n","o","k","\n">>,
                  <<"{","}">>}

\* onChange of the title field
SetTitle(t) ==
    /\ title' = Some(t)
    /\ UNCHANGED <<students, summary, result, lastTitle, pptSection, pptFilename>>
    /\ UNCHANGED <<mode, error, isGenerating, request, producedBy>>
    /\ UNCHANGED <<pptVars, renderOut>>

\* the three mode buttons
SetMode(m) ==
    /\ mode' = m
    /\ UNCHANGED <<error, isGenerating, request, producedBy>>
    /\ UNCHANGED <<pptVars, renderVars>>

\* handleGenerate returning from its validation: only the message changes
GenerateRejected(described, attached) ==
    /\ ~isGenerating
    /\ validationError(mode, title.v, described, attached) # ""
    /\ error' = validationError(mode, title.v, described, attached)
    /\ UNCHANGED <<mode, isGenerating, request, producedBy>>
    /\ UNCHANGED <<pptVars, renderVars>>

\* handleGenerate past its validation without clearing what the previous
\* request displayed
GenerateAcceptedKeepingResult ==
    /\ ~isGenerating
    /\ validationError(mode, title.v, TRUE, TRUE) = ""
    /\ isGenerating' = TRUE
    /\ lastTitle' = Some(Trim(title.v))
    /\ error' = ""
    /\ request' = Some([mode |-> mode, title |-> Trim(title.v)])
    /\ UNCHANGED <<students, summary, result, producedBy>>
    /\ UNCHANGED <<title, pptSection, pptFilename, mode>>
    /\ UNCHANGED <<pptVars, renderOut>>

\* handleGenerate past its validation, up to the first await: the title used
\* is remembered, what the previous request displayed is cleared
GenerateAccepted ==
    /\ ~isGenerating
    /\ validationError(mode, title.v, TRUE, TRUE) = ""
    /\ isGenerating' = TRUE
    /\ lastTitle' = Some(Trim(title.v))
    /\ error' = ""
    /\ result' = <<>>
    /\ summary' = Some(<<>>)
    /\ students' = <<>>
    /\ request' = Some([mode |-> mode, title |-> Trim(title.v)])
    /\ producedBy' = None
    /\ UNCHANGED <<title, pptSection, pptFilename, mode>>
    /\ UNCHANGED <<pptVars, renderOut>>

\* the response reports success: the result is displayed; the file modes
\* clear the title field
GenerateSucceeded(resp, graded) ==
    /\ isGenerating
    /\ resp.success
    /\ IF request.v.mode = "github"
       THEN /\ result' = graded
            /\ summary' = Some(<<>>)
            /\ students' = <<>>
            /\ UNCHANGED title
       ELSE /\ result' = resp.result
            /\ summary' = IF Truthy(resp.summary) THEN resp.summary ELSE summary
            /\ students' = IF resp.scores.some THEN resp.scores.v ELSE students
            /\ title' = Some(<<>>)
    /\ producedBy' = Some(request.v.title)
    /\ isGenerating' = FALSE
    /\ request' = None
    /\ UNCHANGED <<lastTitle, pptSection, pptFilename, mode, error>>
    /\ UNCHANGED <<pptVars, renderOut>>

\* a || b on two strings
OrElse(a, b) == IF a # "" THEN a ELSE b

\* what response.data.error may hold when success is false ('' when absent)
ResponseErrors == {"", "Quota exceeded"}

\* the response reports failure: only the message is shown
GenerateFailed(reported) ==
    /\ isGenerating
    /\ error' = OrElse(reported, IF request.v.mode = "github"
                                 THEN "GitHub grading failed"
                                 ELSE "Generation failed")
    /\ isGenerating' = FALSE
    /\ request' = None
    /\ UNCHANGED <<mode, producedBy>>
    /\ UNCHANGED <<pptVars, renderVars>>

\* new Error(message)
NewError(message) == [response |-> None, request |-> FALSE, message |-> message]

\* what api.post rejects with: the server answered with an error status
\* (detail and error '' when absent), no answer came, or the request was
\* never sent
RejectedResponses == [detail : {"", "Repository not found"}, error : {"", "Bad request"},
                      status : {"500"}]

PostErrors ==
    {[response |-> Some(r), request |-> TRUE,
      message |-> "Request failed with status code 500"] : r \in RejectedResponses}
    \cup {[response |-> None, request |-> TRUE, message |-> "Network Error"]}
    \cup {[response |-> None, request |-> FALSE, message |-> m] :
              m \in {"", "Invalid URL"}}

\* the catch around the /grade-git request: what it throws in the place of err
gradeGitError(err) ==
    IF err.response.some
    THEN NewError(OrElse(err.response.v.detail,
                         OrElse(err.response.v.error,
                                "Server error: " \o err.response.v.status)))
    ELSE IF err.request
    THEN NewError("Cannot connect to server. Please ensure the backend server is running on http://localhost:8000")
    ELSE NewError(OrElse(err.message, "An unexpected error occurred"))

\* err.response?.data?.detail || err.message || 'An error occurred during generation'
catchMessage(err) ==
    OrElse(IF err.response.some THEN err.response.v.detail ELSE "",
           OrElse(err.message, "An error occurred during generation"))

\* the catch and the finally of handleGenerate
Caught(err) ==
    /\ error' = catchMessage(err)
    /\ isGenerating' = FALSE
    /\ request' = None
    /\ UNCHANGED <<mode, producedBy>>
    /\ UNCHANGED <<pptVars, renderVars>>

\* the upload answers without success: handleGenerate throws
UploadRefused ==
    /\ isGenerating
    /\ request.v.mode \in {"files", "ppt"}
    /\ Caught(NewError(IF request.v.mode = "files" THEN "File upload failed"
                       ELSE "PPT file upload failed"))

\* api.post rejects with err: the upload or the /generate request of the file
\* modes, the /grade-git request of the github mode
GenerateThrew(err) ==
    /\ isGenerating
    /\ Caught(IF request.v.mode = "github" THEN gradeGitError(err) ELSE err)

InitGenerate == ExportStart({DashboardStart})

NextGenerate ==
    \/ \E t \in FieldTitles : SetTitle(t)
    \/ \E m \in Modes : SetMode(m)
    \/ \E described, attached \in BOOLEAN : GenerateRejected(described, attached)
    \/ GenerateAccepted
    \/ \E resp \in GenerateResponses, graded \in GithubResults :
          GenerateSucceeded(resp, graded)
    \/ \E reported \in ResponseErrors : GenerateFailed(reported)
    \/ UploadRefused
    \/ \E err \in PostErrors : GenerateThrew(err)

SpecGenerate == InitGenerate /\ [][NextGenerate]_vars

\* something of a response is on display
Displayed == result # <<>> \/ students # <<>>

\* C30: whenever a result or scores are displayed, lastTitle is the trimmed
\* title of the request that produced them; while a request is in flight
\* lastTitle is already its trimmed title and the previous result, summary
\* and scores are cleared
C30_LastTitleOfDisplayed ==
    /\ Displayed => producedBy.some /\ lastTitle = Some(producedBy.v)
    /\ isGenerating =>
          /\ request.some /\ lastTitle = Some(request.v.title)
          /\ result = <<>> /\ ~Truthy(summary) /\ students = <<>>

\* a file-mode request has succeeded: its result is displayed, the title
\* field is cleared and lastTitle still holds the title it was sent with
C30_Witness ==
    /\ Displayed
    /\ ~isGenerating
    /\ title = Some(<<>>)
    /\ lastTitle = Some(Trim(TitleText))
    /\ producedBy = Some(Trim(TitleText))

====
